---- MODULE Spec2Model ----
(***************************************************************************)
(* Model of the request orchestration and resource-control layer of the    *)
(* research agent backend:                                                 *)
(*   - middleware/rate_limiting.py  (sliding window, token bucket)         *)
(*   - services/cache_service.py    (cache engine over two collections)    *)
(*   - services/research_orchestrator.py (submit / process / cancel,       *)
(*     fan-out to three source adapters under one timeout)                 *)
(* Time is an integer clock `now`; every read of time.time() or            *)
(* datetime.utcnow() in the code is a read of `now` at the step that       *)
(* executes it.                                                            *)
(***************************************************************************)
EXTENDS Integers, Sequences, FiniteSets, TLC

(* ------------------------------ bounds --------------------------------- *)
MaxTime == 2
MaxChars == 4
MaxRetries == 3
DigestLength == 32
NumKeys == 1
MaxRequests == 2
WindowSeconds == 1
Capacity == 3
RefillRate == 2
MaxCost == 4
DefaultTtl == 2
MaxTtl == 1
MaxCalls == 3
MaxQueries == 2
TimeoutSeconds == 1
GlobalLimit == 3
IpLimit == 2
UserLimit == 1
ResearchLimit == 1
HourSeconds == 3
ThrottleCapacity == 1

\* the concurrent callers of a limiter or of the cache
Callers == {1, 2}
\* the concurrent orchestrator calls
Procs == {1, 2}
RKeys == 1..NumKeys
Times == 0..MaxTime

VARIABLES
    now,        \* wall clock (time.time / datetime.utcnow)
    \* SlidingWindowRateLimiter
    requests,   \* self.requests: key -> deque of admission timestamps
    swLock,     \* self.lock: 0 when free, else the caller holding it
    swpc,       \* position of each concurrent is_allowed call
    swkey,      \* its key argument
    swnow,      \* its local `now`
    swcur,      \* its local `current_requests`
    swallowed,  \* its local `is_allowed`
    swinfo,     \* its rate_limit_info
    admitted,   \* history: key -> timestamps of all admitted calls
    \* TokenBucketRateLimiter
    buckets,    \* self.buckets: key -> [tokens, last_refill], created lazily
    tbLock,     \* self.lock
    tbpc, tbkey, tbcost, tbnow, tballowed, tbinfo,
    \* RateLimitManager
    windows,    \* limiter name -> key -> deque of the requests it admitted
    throttle,   \* throttle_limiter.buckets
    req,        \* the request inside check_rate_limits: position, attributes, outcome
    \* CacheService over its two MongoDB collections
    resultsColl,  \* research_results: query_hash -> stored document
    metaColl,     \* cache_metadata: query_hash -> [hit_count]
    ccall,        \* position, arguments, locals and outcome of each cache call
    written,      \* history: query_hash -> result and expiry of the last store not invalidated
    lookups,      \* history: query_hash -> lookups that returned its entry since the entry exists
    ncalls,       \* history: number of cache operations called by clients
    \* ResearchOrchestrator
    active,       \* keys of self._active_queries
    status,       \* query id -> status of its ResearchQuery object ("none": not created)
    qtext,        \* query id -> query_text
    nextId,       \* the next fresh query id (uuid4)
    proc,         \* position, locals and outcome of each orchestrator call
    reply,        \* what the last submit or cancel call handed to its caller
    \* callers of the pure functions
    fn,           \* a text, another way of writing it, and what the functions returned
    health,       \* the get_service_health call: position, what its probes did, its report
    search,       \* a source adapter search: position, attempts made, outcome
    status_info   \* what the last get_rate_limit_status call returned

clockVars == <<now>>
swVars == <<requests, swLock, swpc, swkey, swnow, swcur, swallowed, swinfo, admitted>>
tbVars == <<buckets, tbLock, tbpc, tbkey, tbcost, tbnow, tballowed, tbinfo>>
mgrVars == <<windows, throttle, req>>
cacheVars == <<resultsColl, metaColl, ccall, written, lookups, ncalls>>
queryVars == <<active, status, qtext, nextId>>
orchVars == <<active, status, qtext, nextId, proc>>
apiVars == <<reply, fn, health, search, status_info>>

Min(a, b) == IF a <= b THEN a ELSE b
Max(a, b) == IF a >= b THEN a ELSE b

(* ------------------------------- clock --------------------------------- *)
Tick ==
    /\ now < MaxTime
    /\ now' = now + 1

(* ----------------------- SlidingWindowRateLimiter ---------------------- *)
NoInfo == [limit |-> 0, remaining |-> 0, reset |-> 0, window_seconds |-> 0]

InitWindow ==
    /\ requests = [k \in RKeys |-> <<>>]
    /\ swLock = 0
    /\ swpc = [c \in Callers |-> "idle"]
    /\ swkey = [c \in Callers |-> 1]
    /\ swnow = [c \in Callers |-> 0]
    /\ swcur = [c \in Callers |-> 0]
    /\ swallowed = [c \in Callers |-> FALSE]
    /\ swinfo = [c \in Callers |-> NoInfo]
    /\ admitted = [k \in RKeys |-> <<>>]

\* while request_times and request_times[0] < window_start: popleft()
RECURSIVE EvictOld(_, _)
EvictOld(dq, windowStart) ==
    IF dq # <<>> /\ Head(dq) < windowStart
    THEN EvictOld(Tail(dq), windowStart)
    ELSE dq

\* is_allowed = current_requests < self.max_requests
UnderLimitInclusive(current) == current <= MaxRequests
UnderLimit(current) == current < MaxRequests

\* async with self.lock: the lock is taken only when it is free
LockFreeIgnored(l) == TRUE
LockFree(l) == l = 0

\* a request calls is_allowed(key) and reaches `async with self.lock`
SWCall(c, k) ==
    /\ swpc[c] = "idle"
    /\ swpc' = [swpc EXCEPT ![c] = "acquire"]
    /\ swkey' = [swkey EXCEPT ![c] = k]
    /\ UNCHANGED <<requests, swLock, swnow, swcur, swallowed, swinfo, admitted>>

SWAcquire(c) ==
    /\ swpc[c] = "acquire"
    /\ LockFree(swLock)
    /\ swLock' = c
    /\ swpc' = [swpc EXCEPT ![c] = "check"]
    /\ UNCHANGED <<requests, swkey, swnow, swcur, swallowed, swinfo, admitted>>

\* lines 44-54: read the clock, evict, count, decide
SWCheck(c) ==
    /\ swpc[c] = "check"
    /\ LET k == swkey[c]
           kept == EvictOld(requests[k], now - WindowSeconds)
       IN /\ requests' = [requests EXCEPT ![k] = kept]
          /\ swnow' = [swnow EXCEPT ![c] = now]
          /\ swcur' = [swcur EXCEPT ![c] = Len(kept)]
          /\ swallowed' = [swallowed EXCEPT ![c] = UnderLimit(Len(kept))]
    /\ swpc' = [swpc EXCEPT ![c] = "record"]
    /\ UNCHANGED <<swLock, swkey, swinfo, admitted>>

\* lines 56-69: append when allowed, build the info, leave the lock
SWRecord(c) ==
    /\ swpc[c] = "record"
    /\ LET k == swkey[c]
           times == IF swallowed[c] THEN Append(requests[k], swnow[c]) ELSE requests[k]
       IN /\ requests' = [requests EXCEPT ![k] = times]
          /\ admitted' = [admitted EXCEPT ![k] =
                            IF swallowed[c] THEN Append(@, swnow[c]) ELSE @]
          /\ swinfo' = [swinfo EXCEPT ![c] =
                [limit |-> MaxRequests,
                 remaining |-> Max(0, MaxRequests - swcur[c] - (IF swallowed[c] THEN 1 ELSE 0)),
                 reset |-> IF times # <<>> THEN swnow[c] + WindowSeconds ELSE swnow[c],
                 window_seconds |-> WindowSeconds]]
    /\ swLock' = IF swLock = c THEN 0 ELSE swLock
    /\ swpc' = [swpc EXCEPT ![c] = "done"]
    /\ UNCHANGED <<swkey, swnow, swcur, swallowed>>

\* the caller consumes (is_allowed, rate_limit_info)
SWReturn(c) ==
    /\ swpc[c] = "done"
    /\ swpc' = [swpc EXCEPT ![c] = "idle"]
    /\ swallowed' = [swallowed EXCEPT ![c] = FALSE]
    /\ swinfo' = [swinfo EXCEPT ![c] = NoInfo]
    /\ swcur' = [swcur EXCEPT ![c] = 0]
    /\ swnow' = [swnow EXCEPT ![c] = 0]
    /\ UNCHANGED <<requests, swLock, swkey, admitted>>

(* ------------------------ TokenBucketRateLimiter ----------------------- *)
NoBucketInfo == [capacity |-> 0, tokens |-> 0, refill_rate |-> 0, tokens_required |-> 0]

InitBucket ==
    /\ buckets = <<>>
    /\ tbLock = 0
    /\ tbpc = [c \in Callers |-> "idle"]
    /\ tbkey = [c \in Callers |-> 1]
    /\ tbcost = [c \in Callers |-> 1]
    /\ tbnow = [c \in Callers |-> 0]
    /\ tballowed = [c \in Callers |-> FALSE]
    /\ tbinfo = [c \in Callers |-> NoBucketInfo]

\* defaultdict factory: a bucket is created full, stamped with the time of creation
NewBucket(t) == [tokens |-> Capacity, last_refill |-> t]

\* lines 96-99: refill by elapsed time, capped at capacity
Refill(b, t) ==
    [tokens |-> Min(Capacity, b.tokens + (t - b.last_refill) * RefillRate),
     last_refill |-> t]

\* lines 102-105: consume when enough tokens are available
ConsumeAlways(b, cost) == [b EXCEPT !.tokens = @ - cost]
Consume(b, cost) ==
    IF b.tokens >= cost THEN [b EXCEPT !.tokens = @ - cost] ELSE b

\* tokens_required: the default of one token, and a cost no bucket can hold
Costs == {1, MaxCost}

TBCall(c, k, cost) ==
    /\ tbpc[c] = "idle"
    /\ tbpc' = [tbpc EXCEPT ![c] = "acquire"]
    /\ tbkey' = [tbkey EXCEPT ![c] = k]
    /\ tbcost' = [tbcost EXCEPT ![c] = cost]
    /\ UNCHANGED <<buckets, tbLock, tbnow, tballowed, tbinfo>>

TBAcquire(c) ==
    /\ tbpc[c] = "acquire"
    /\ tbLock = 0
    /\ tbLock' = c
    /\ tbpc' = [tbpc EXCEPT ![c] = "clock"]
    /\ UNCHANGED <<buckets, tbkey, tbcost, tbnow, tballowed, tbinfo>>

\* line 92: now = time.time()
TBReadClock(c) ==
    /\ tbpc[c] = "clock"
    /\ tbnow' = [tbnow EXCEPT ![c] = now]
    /\ tbpc' = [tbpc EXCEPT ![c] = "bucket"]
    /\ UNCHANGED <<buckets, tbLock, tbkey, tbcost, tballowed, tbinfo>>

\* lines 93-114: fetch (or create, reading the clock again) the bucket,
\* refill, decide, consume, build the info, leave the lock
TBBody(c) ==
    /\ tbpc[c] = "bucket"
    /\ LET k == tbkey[c]
           b0 == IF k \in DOMAIN buckets THEN buckets[k] ELSE NewBucket(now)
           b1 == Refill(b0, tbnow[c])
           ok == b1.tokens >= tbcost[c]
           b2 == Consume(b1, tbcost[c])
       IN /\ buckets' = (k :> b2) @@ buckets
          /\ tballowed' = [tballowed EXCEPT ![c] = ok]
          /\ tbinfo' = [tbinfo EXCEPT ![c] =
                [capacity |-> Capacity, tokens |-> b2.tokens,
                 refill_rate |-> RefillRate, tokens_required |-> tbcost[c]]]
    /\ tbLock' = 0
    /\ tbpc' = [tbpc EXCEPT ![c] = "done"]
    /\ UNCHANGED <<tbkey, tbcost, tbnow>>

TBReturn(c) ==
    /\ tbpc[c] = "done"
    /\ tbpc' = [tbpc EXCEPT ![c] = "idle"]
    /\ tballowed' = [tballowed EXCEPT ![c] = FALSE]
    /\ tbinfo' = [tbinfo EXCEPT ![c] = NoBucketInfo]
    /\ tbnow' = [tbnow EXCEPT ![c] = 0]
    /\ tbcost' = [tbcost EXCEPT ![c] = 1]
    /\ UNCHANGED <<buckets, tbLock, tbkey>>

(* --------------------------- RateLimitManager -------------------------- *)
\* the four sliding-window limiters of __init__, in the order check_rate_limits consults them
WindowNames == <<"global", "ip", "user", "research">>
WindowSet == {WindowNames[i] : i \in DOMAIN WindowNames}

LimitOf(n) ==
    CASE n = "global" -> GlobalLimit
      [] n = "ip" -> IpLimit
      [] n = "user" -> UserLimit
      [] n = "research" -> ResearchLimit

\* global, ip and user count per minute, research per hour
WindowOf(n) == IF n = "research" THEN HourSeconds ELSE WindowSeconds

MessageOf(n) ==
    CASE n = "global" -> "Global rate limit exceeded"
      [] n = "ip" -> "IP rate limit exceeded"
      [] n = "user" -> "User rate limit exceeded"
      [] n = "research" -> "Research rate limit exceeded"

\* request attributes: the client address, the X-User-ID header ("" when absent)
\* and the URL path as its segments
ClientIps == {"10.0.0.1", "10.0.0.9"}
WhitelistIps == {"10.0.0.9"}
UserIds == {"", "u1"}
Paths == {<<"api", "research", "query">>, <<"api", "research", "status", "q1">>,
          <<"api", "research", "health">>, <<"api", "health">>}
LimiterKeys == {"global"} \cup ClientIps \cup (UserIds \ {""})

\* the paths requested around the status calls
StatusPaths == {<<"api", "rate-limit-status">>}

NoResponse == [error |-> "", message |-> "", remaining |-> 0, retry_after |-> 0]
IdleReq == [pc |-> "idle", ip |-> "", user |-> "", path |-> <<>>,
            consulted |-> <<>>, remaining |-> 0, verdict |-> "", response |-> NoResponse]

InitManager ==
    /\ windows = [n \in WindowSet |-> [k \in LimiterKeys |-> <<>>]]
    /\ throttle = <<>>
    /\ req = IdleReq

\* SlidingWindowRateLimiter.is_allowed run under its lock at time t on one deque
WindowIsAllowedUnrecorded(dq, limit, window, t) ==
    LET kept == EvictOld(dq, t - window)
    IN [allowed |-> Len(kept) < limit,
        times |-> kept,
        info |-> [limit |-> limit, remaining |-> Max(0, limit - Len(kept)),
                  reset |-> IF kept # <<>> THEN t + window ELSE t,
                  window_seconds |-> window]]
WindowIsAllowed(dq, limit, window, t) ==
    LET kept == EvictOld(dq, t - window)
        ok == Len(kept) < limit
        times == IF ok THEN Append(kept, t) ELSE kept
    IN [allowed |-> ok,
        times |-> times,
        info |-> [limit |-> limit,
                  remaining |-> Max(0, limit - Len(kept) - (IF ok THEN 1 ELSE 0)),
                  reset |-> IF times # <<>> THEN t + window ELSE t,
                  window_seconds |-> window]]

\* TokenBucketRateLimiter.is_allowed of the throttle limiter, tokens_required = 1
ThrottleIsAllowed(bs, key, t) ==
    LET b == IF key \in DOMAIN bs THEN bs[key]
             ELSE [tokens |-> ThrottleCapacity, last_refill |-> t]
        filled == Min(ThrottleCapacity, b.tokens + (t - b.last_refill) * RefillRate)
        ok == filled >= 1
    IN [allowed |-> ok,
        bucket |-> [tokens |-> IF ok THEN filled - 1 ELSE filled, last_refill |-> t],
        info |-> [capacity |-> ThrottleCapacity, tokens |-> IF ok THEN filled - 1 ELSE filled,
                  refill_rate |-> RefillRate, tokens_required |-> 1]]

\* client_ip in self.whitelist_ips
WhitelistIgnored(ip) == FALSE
Whitelisted(ip) == ip \in WhitelistIps

\* "/api/research/" in path and path != "/api/research/health"
ResearchPath(path) ==
    /\ \E i \in 1..(Len(path) - 2) : path[i] = "api" /\ path[i + 1] = "research"
    /\ path # <<"api", "research", "health">>

\* routers/research.py: the route that submits a query for processing
SubmissionPath(path) == path = <<"api", "research", "query">>

\* the check that follows a passed check n for a request of this user and path
SkipsToThrottle(n, user, path) == "throttle"
NextCheck(n, user, path) ==
    CASE n = "global" -> "ip"
      [] n = "ip" -> IF user # "" THEN "user"
                     ELSE IF ResearchPath(path) THEN "research" ELSE "throttle"
      [] n = "user" -> IF ResearchPath(path) THEN "research" ELSE "throttle"
      [] n = "research" -> "throttle"

\* the key a limiter is consulted with
KeyOf(n, ip, user) ==
    CASE n = "global" -> "global"
      [] n = "ip" -> ip
      [] n = "user" -> user
      [] n \in {"research", "throttle"} -> IF user # "" THEN user ELSE ip

\* _create_rate_limit_response
RateLimitResponseRetryNow(message, info) ==
    [error |-> "rate_limit_exceeded", message |-> message,
     remaining |-> info.remaining, retry_after |-> info.remaining]
RateLimitResponse(message, info) ==
    [error |-> "rate_limit_exceeded", message |-> message,
     remaining |-> info.remaining, retry_after |-> info.window_seconds]

\* _create_throttle_response: retry_after = max(1, int(tokens_required / refill_rate))
ThrottleResponse(message, info) ==
    [error |-> "request_throttled", message |-> message,
     remaining |-> info.tokens, retry_after |-> Max(1, info.tokens_required \div info.refill_rate)]

\* lines 170-187: a request enters check_rate_limits; a whitelisted address returns None at once
CheckRateLimits(ip, user, path) ==
    /\ req.pc \in {"idle", "done"}
    /\ req' = IF Whitelisted(ip)
              THEN [IdleReq EXCEPT !.pc = "done", !.ip = ip, !.user = user, !.path = path,
                                   !.verdict = "admitted"]
              ELSE [IdleReq EXCEPT !.pc = "global", !.ip = ip, !.user = user, !.path = path]
    /\ UNCHANGED <<windows, throttle>>

\* lines 189-226: one sliding-window check; a refusal returns the 429 response
CheckWindow(n) ==
    /\ req.pc = n
    /\ LET key == KeyOf(n, req.ip, req.user)
           r == WindowIsAllowed(windows[n][key], LimitOf(n), WindowOf(n), now)
       IN /\ windows' = [windows EXCEPT ![n][key] = r.times]
          /\ req' = IF r.allowed
                    THEN [req EXCEPT !.pc = NextCheck(n, req.user, req.path),
                                     !.consulted = Append(@, n),
                                     !.remaining = r.info.remaining]
                    ELSE [req EXCEPT !.pc = "done", !.consulted = Append(@, n),
                                     !.remaining = r.info.remaining,
                                     !.verdict = n,
                                     !.response = RateLimitResponse(MessageOf(n), r.info)]
    /\ UNCHANGED throttle

\* lines 228-250: the token bucket; a refusal returns the throttle response, else None
CheckThrottle ==
    /\ req.pc = "throttle"
    /\ LET key == KeyOf("throttle", req.ip, req.user)
           r == ThrottleIsAllowed(throttle, key, now)
       IN /\ throttle' = (key :> r.bucket) @@ throttle
          /\ req' = IF r.allowed
                    THEN [req EXCEPT !.pc = "done", !.consulted = Append(@, "throttle"),
                                     !.remaining = 0, !.verdict = "admitted"]
                    ELSE [req EXCEPT !.pc = "done", !.consulted = Append(@, "throttle"),
                                     !.remaining = 0, !.verdict = "throttle",
                                     !.response = ThrottleResponse(
                                         "Request throttled - too many requests", r.info)]
    /\ UNCHANGED windows

\* get_rate_limit_status, lines 303-324: is_allowed of the global, the per-IP
\* and, with a user id, the per-user limiter; their infos are the report
NoStatus == [client_ip |-> "", user_id |-> "", global_limit |-> NoInfo, ip_limit |-> NoInfo,
             user_limit |-> NoInfo, whitelisted |-> FALSE]

GetRateLimitStatus(ip, user) ==
    /\ req.pc \in {"idle", "done"}
    /\ LET g == WindowIsAllowed(windows["global"]["global"], GlobalLimit, WindowSeconds, now)
           i == WindowIsAllowed(windows["ip"][ip], IpLimit, WindowSeconds, now)
           u == IF user # ""
                THEN WindowIsAllowed(windows["user"][user], UserLimit, WindowSeconds, now)
                ELSE [allowed |-> FALSE, times |-> <<>>, info |-> NoInfo]
       IN /\ windows' = [n \in WindowSet |->
                            CASE n = "global" -> [windows[n] EXCEPT !["global"] = g.times]
                              [] n = "ip" -> [windows[n] EXCEPT ![ip] = i.times]
                              [] n = "user" /\ user # "" -> [windows[n] EXCEPT ![user] = u.times]
                              [] OTHER -> windows[n]]
          /\ status_info' = [client_ip |-> ip, user_id |-> user, global_limit |-> g.info,
                             ip_limit |-> i.info, user_limit |-> u.info,
                             whitelisted |-> Whitelisted(ip)]
    /\ UNCHANGED <<throttle, req>>

(* ----------------------------- CacheService ---------------------------- *)
Sources == {"google_scholar", "google_books", "sciencedirect"}

\* a query text is a sequence of words; words are numbered in lexicographic order
StopWords == {3}
Texts == {<<1, 2>>, <<2, 3, 1>>}

SelectNonStop(w) == w \notin StopWords

RECURSIVE Insert(_, _)
Insert(w, sorted) ==
    IF sorted = <<>> THEN <<w>>
    ELSE IF w <= Head(sorted) THEN <<w>> \o sorted
    ELSE <<Head(sorted)>> \o Insert(w, Tail(sorted))

RECURSIVE SortWords(_)
SortWords(ws) == IF ws = <<>> THEN <<>> ELSE Insert(Head(ws), SortWords(Tail(ws)))

\* normalize_query: drop the stop words, sort the remaining words
normalize_query(text) == SortWords(SelectSeq(text, SelectNonStop))

\* generate_cache_key: digest of the normalized text (collision-free)
KeyOfRawText(text) == <<"md5", text>>
generate_cache_key(text) == <<"md5", normalize_query(text)>>

CKeys == {generate_cache_key(t) : t \in Texts}

(* ------------- normalize_query and generate_cache_key on characters ---- *)
\* a raw query string is a sequence of characters; these are the letters,
\* whitespace and punctuation the strings below are written with
Letters == {"a", "b"}
Capitals == {"A", "B"}
Spaces == {" "}
Chars == {"a", "A", "b", " ", ".", "-"}
RawTexts == UNION {[1..n -> Chars] : n \in 0..MaxChars}

\* code points: list.sort() and str comparison order the tokens by them
Ord(ch) ==
    CASE ch = " " -> 32 [] ch = "-" -> 45 [] ch = "." -> 46
      [] ch = "A" -> 65 [] ch = "B" -> 66 [] ch = "a" -> 97 [] ch = "b" -> 98

\* line 57: query.lower().strip()
Lower(ch) == CASE ch = "A" -> "a" [] ch = "B" -> "b" [] OTHER -> ch
LowerText(s) == [i \in 1..Len(s) |-> Lower(s[i])]
IsSpace(ch) == ch \in Spaces
RECURSIVE LStripText(_)
LStripText(s) == IF s # <<>> /\ IsSpace(Head(s)) THEN LStripText(Tail(s)) ELSE s
RECURSIVE RStripText(_)
RStripText(s) ==
    IF s # <<>> /\ IsSpace(s[Len(s)]) THEN RStripText(SubSeq(s, 1, Len(s) - 1)) ELSE s
StripText(s) == RStripText(LStripText(s))

\* line 60: re.sub(r'\s+', ' ', normalized)
RECURSIVE CollapseSpaces(_)
CollapseSpaces(s) ==
    IF s = <<>> THEN <<>>
    ELSE IF IsSpace(Head(s)) THEN <<" ">> \o CollapseSpaces(LStripText(s))
    ELSE <<Head(s)>> \o CollapseSpaces(Tail(s))

\* line 63: re.sub(r'[^\w\s-]', '', normalized)
Kept(ch) == ch \in Letters \cup Capitals \cup Spaces \cup {"-"}
RemovePunctuation(s) == SelectSeq(s, Kept)

\* lines 66-71: the stop words that can be written with Letters
StopTokens == {<<"a">>}

\* line 73: normalized.split(), the maximal runs of non-whitespace
RECURSIVE SplitFrom(_, _)
SplitFrom(s, word) ==
    IF s = <<>> THEN (IF word = <<>> THEN <<>> ELSE <<word>>)
    ELSE IF IsSpace(Head(s))
         THEN (IF word = <<>> THEN <<>> ELSE <<word>>) \o SplitFrom(Tail(s), <<>>)
         ELSE SplitFrom(Tail(s), Append(word, Head(s)))
Split(s) == SplitFrom(s, <<>>)

\* line 74: [word for word in words if word not in stop_words]
NotStopToken(word) == word \notin StopTokens
KeepsStopTokens(words) == words
FilterStopTokens(words) == SelectSeq(words, NotStopToken)

\* line 77: filtered_words.sort(), strings compared code point by code point
RECURSIVE TokenLeq(_, _)
TokenLeq(u, v) ==
    IF u = <<>> THEN TRUE
    ELSE IF v = <<>> THEN FALSE
    ELSE IF Ord(Head(u)) # Ord(Head(v)) THEN Ord(Head(u)) < Ord(Head(v))
    ELSE TokenLeq(Tail(u), Tail(v))
RECURSIVE InsertToken(_, _)
InsertToken(w, sorted) ==
    IF sorted = <<>> THEN <<w>>
    ELSE IF TokenLeq(w, Head(sorted)) THEN <<w>> \o sorted
    ELSE <<Head(sorted)>> \o InsertToken(w, Tail(sorted))
RECURSIVE SortTokens(_)
SortTokens(ws) == IF ws = <<>> THEN <<>> ELSE InsertToken(Head(ws), SortTokens(Tail(ws)))

\* line 79: ' '.join(filtered_words)
RECURSIVE Join(_)
Join(ws) ==
    IF ws = <<>> THEN <<>>
    ELSE IF Len(ws) = 1 THEN Head(ws)
    ELSE Head(ws) \o <<" ">> \o Join(Tail(ws))

\* normalize_query, lines 56-79, step by step
NormalizeText(s) ==
    Join(SortTokens(FilterStopTokens(Split(
        RemovePunctuation(CollapseSpaces(StripText(LowerText(s))))))))

\* hashlib.md5(...).hexdigest(): DigestLength lower-case hexadecimal digits
\* fixed by the bytes digested, no two of the strings considered sharing a
\* digest; the digits here spell the bytes, padded with zeroes
HexDigits == <<"0", "1", "2", "3", "4", "5", "6", "7", "8", "9", "a", "b", "c", "d", "e", "f">>
HexOf(n) == <<HexDigits[(n \div Len(HexDigits)) + 1], HexDigits[(n % Len(HexDigits)) + 1]>>
RECURSIVE HexBytes(_)
HexBytes(s) == IF s = <<>> THEN <<>> ELSE HexOf(Ord(Head(s))) \o HexBytes(Tail(s))
HexDigest(s) ==
    LET h == HexBytes(s)
    IN [i \in 1..DigestLength |-> IF i <= Len(h) THEN h[i] ELSE "0"]

\* generate_cache_key, lines 91-92
CacheKeyOfText(s) == HexDigest(NormalizeText(s))

\* the ways of writing a text again that normalize_query is to see through
InsertAt(s, i, t) == SubSeq(s, 1, i) \o t \o SubSeq(s, i + 1, Len(s))
ToggleCase(ch) ==
    CASE ch = "a" -> "A" [] ch = "A" -> "a" [] ch = "b" -> "B" [] ch = "B" -> "b" [] OTHER -> ch
AtSpace(s, i) ==
    \/ i = 0 \/ i = Len(s)
    \/ IsSpace(s[i]) \/ IsSpace(s[i + 1])
Swapped(ws, i) ==
    [j \in 1..Len(ws) |-> IF j = i THEN ws[i + 1] ELSE IF j = i + 1 THEN ws[i] ELSE ws[j]]
Variants(s) ==
    {[edit |-> "same", text |-> s]}
    \cup {[edit |-> "permuted", text |-> Join(Swapped(Split(s), i))] : i \in 1..(Len(Split(s)) - 1)}
    \cup {[edit |-> "recased", text |-> [s EXCEPT ![i] = ToggleCase(s[i])]] :
              i \in {j \in 1..Len(s) : s[j] \in Letters \cup Capitals}}
    \cup {[edit |-> "punctuated", text |-> InsertAt(s, i, <<".">>)] : i \in 0..Len(s)}
    \cup {[edit |-> "spaced", text |-> InsertAt(s, i, <<" ">>)] : i \in {j \in 0..Len(s) : AtSpace(s, j)}}
    \cup {[edit |-> "stopword", text |-> InsertAt(s, i, <<" ", "a", " ">>)] :
              i \in {j \in 0..Len(s) : AtSpace(s, j)}}

\* a caller holding a text and one other way of writing it, and what
\* normalize_query and generate_cache_key returned for the two
NoFn == [pc |-> "idle", text |-> <<>>, edit |-> "", variant |-> <<>>,
         norm |-> <<>>, normVariant |-> <<>>, key |-> <<>>, keyVariant |-> <<>>]

GenerateCacheKeys(v) ==
    /\ fn.pc = "called"
    /\ fn' = [fn EXCEPT !.pc = "done", !.edit = v.edit, !.variant = v.text,
                        !.norm = NormalizeText(fn.text),
                        !.normVariant = NormalizeText(v.text),
                        !.key = CacheKeyOfText(fn.text),
                        !.keyVariant = CacheKeyOfText(v.text)]

NoResults == [s \in Sources |-> <<>>]
NoDoc == [query_id |-> 0, results |-> NoResults, ai_summary |-> "none",
          confidence_score |-> "none", cached |-> FALSE, expires_at |-> <<>>]

\* a call record also keeps `fault`, the persistence fault that ended it ("": none),
\* and `faultAt`, the database operation it hit
\* outcome of a cache call: kind is one of
\*   "pending", "hit" (doc), "miss", "true", "false", "count" (n), "raise" (exc)
Outcome(kind, doc, n, exc) == [kind |-> kind, doc |-> doc, n |-> n, exc |-> exc]
Pending == Outcome("pending", NoDoc, 0, "")
Raise(exc) == Outcome("raise", NoDoc, 0, exc)

IdleCall == [pc |-> "idle", op |-> "", fault |-> "", faultAt |-> "", query |-> <<>>, arg |-> NoDoc, ttl |-> <<>>,
             found |-> NoDoc, keys |-> {}, at |-> 0, n |-> 0, ret |-> Pending]

InitCache ==
    /\ resultsColl = <<>>
    /\ metaColl = <<>>
    /\ ccall = [c \in Callers |-> IdleCall]
    /\ written = <<>>
    /\ lookups = <<>>
    /\ ncalls = 0

\* removal of a set of keys from a collection
Without(coll, ks) == [k \in DOMAIN coll \ ks |-> coll[k]]

\* the collections as one value: what a database operation reads and writes
CacheState ==
    [results |-> resultsColl, meta |-> metaColl, written |-> written, lookups |-> lookups]

\* the state and the call after one database operation of the call
After(cs, call) == [cs |-> cs, call |-> call]
Finish(cs, call, ret) ==
    After(cs, [IdleCall EXCEPT !.pc = "done", !.op = call.op, !.ret = ret,
                               !.fault = call.fault, !.faultAt = call.faultAt,
                               !.query = IF call.op = "get_find" THEN call.query ELSE <<>>,
                               !.at = IF call.op = "get_find" THEN call.at ELSE 0])

\* self.default_ttl_hours, and line 162: ttl = ttl_hours or self.default_ttl_hours
EffectiveTtl(ttl) == IF ttl = <<>> \/ ttl[1] = 0 THEN DefaultTtl ELSE ttl[1]

\* lines 165-177: the stored document
ResultDoc(result, expiresAt) ==
    [result EXCEPT !.cached = TRUE, !.expires_at = <<expiresAt>>]

\* lines 109-112: find_one({"query_hash": key, "expires_at": {"$gt": utcnow()}})
NotExpiredInclusive(doc, t) == doc.expires_at[1] >= t
NotExpired(doc, t) == doc.expires_at[1] > t

FindValid(coll, key, t) ==
    IF key \in DOMAIN coll /\ NotExpired(coll[key], t) THEN coll[key] ELSE NoDoc

\* lines 130-131: ResearchResult(**cached_doc) with cached = True
AsCachedResult(doc) == [doc EXCEPT !.cached = TRUE]

\* the call record of a caller entering a cache operation
NewCall(op, query, arg, ttl) ==
    [IdleCall EXCEPT !.pc = op, !.op = op, !.query = query, !.arg = arg, !.ttl = ttl]

BeginCacheCall(c, op, query, arg, ttl) ==
    ccall' = [ccall EXCEPT ![c] = NewCall(op, query, arg, ttl)]

\* the persistence faults that can hit each database operation ("": none).
\* _get_collections turns its faults into DatabaseError; get_cached_result and
\* store_result re-raise it and wrap every other fault into CacheError.
FaultsAt(pc) ==
    IF pc \in {"get_find", "store_replace"} THEN {"", "DatabaseError", "CacheError"}
    ELSE {"", "CacheError"}

\* get_cached_result on a fault, lines 136-140: DatabaseError is re-raised,
\* any other exception is raised as CacheError
LookupFaultAsMiss(fault) == Outcome("miss", NoDoc, 0, "")
LookupFault(fault) == Raise(fault)

\* get_cached_result, lines 105-116: obtain the collections, find the valid entry
GetFind(cs, call, t, fault) ==
    IF fault # "" THEN Finish(cs, [call EXCEPT !.fault = fault, !.faultAt = call.pc], LookupFault(fault))
    ELSE LET doc == FindValid(cs.results, generate_cache_key(call.query), t)
         IN IF doc = NoDoc
            THEN Finish(cs, [call EXCEPT !.at = t], Outcome("miss", NoDoc, 0, ""))
            ELSE After(cs, [call EXCEPT !.at = t, !.found = doc, !.pc = "get_update"])

\* get_cached_result, lines 119-140: upsert the hit count, convert the document
GetUpdate(cs, call, t, fault) ==
    IF fault # "" THEN Finish(cs, [call EXCEPT !.fault = fault, !.faultAt = call.pc], LookupFault("CacheError"))
    ELSE LET key == generate_cache_key(call.query)
             hits == IF key \in DOMAIN cs.meta THEN cs.meta[key].hit_count ELSE 0
             seen == IF key \in DOMAIN cs.lookups THEN cs.lookups[key] ELSE 0
         IN Finish([cs EXCEPT !.meta = (key :> [hit_count |-> hits + 1]) @@ cs.meta,
                              !.lookups = IF key \in DOMAIN cs.results
                                          THEN (key :> seen + 1) @@ cs.lookups
                                          ELSE cs.lookups],
                   [call EXCEPT !.found = NoDoc],
                   Outcome("hit", AsCachedResult(call.found), 0, ""))

\* store_result on a fault: lines 202-206 raise
StoreFault(fault) == Raise(fault)

\* store_result, lines 160-184: obtain the collections, replace_one(upsert)
StoreReplace(cs, call, t, fault) ==
    IF fault # "" THEN Finish(cs, [call EXCEPT !.fault = fault, !.faultAt = call.pc], StoreFault(fault))
    ELSE LET key == generate_cache_key(call.query)
             doc == ResultDoc(call.arg, t + EffectiveTtl(call.ttl))
             w == [r |-> call.arg, expires |-> t + EffectiveTtl(call.ttl)]
         IN After([cs EXCEPT !.results = (key :> doc) @@ cs.results,
                             !.written = (key :> w) @@ cs.written],
                  [call EXCEPT !.pc = "store_update", !.arg = NoDoc, !.ttl = <<>>])

\* store_result, lines 187-206: upsert the metadata, report
StoreUpdate(cs, call, t, fault) ==
    IF fault # "" THEN Finish(cs, [call EXCEPT !.fault = fault, !.faultAt = call.pc], StoreFault("CacheError"))
    ELSE LET key == generate_cache_key(call.query)
         IN Finish([cs EXCEPT !.meta = IF key \in DOMAIN cs.meta THEN cs.meta
                                        ELSE (key :> [hit_count |-> 0]) @@ cs.meta],
                   call, Outcome("true", NoDoc, 0, ""))

\* invalidate_cache, lines 219-223 and 235-237: obtain the collections, delete the result
InvalidateResult(cs, call, t, fault) ==
    IF fault # "" THEN Finish(cs, [call EXCEPT !.fault = fault, !.faultAt = call.pc], Outcome("false", NoDoc, 0, ""))
    ELSE LET key == generate_cache_key(call.query)
         IN After([cs EXCEPT !.results = Without(cs.results, {key}),
                             !.written = Without(cs.written, {key}),
                             !.lookups = Without(cs.lookups, {key})],
                  [call EXCEPT !.pc = "inv_meta",
                               !.n = IF key \in DOMAIN cs.results THEN 1 ELSE 0])

\* line 228: result.deleted_count > 0
DeletedAlways(n) == TRUE
Deleted(n) == n > 0

\* invalidate_cache, lines 226-237: delete the metadata, report
InvalidateMeta(cs, call, t, fault) ==
    IF fault # "" THEN Finish(cs, [call EXCEPT !.fault = fault, !.faultAt = call.pc], Outcome("false", NoDoc, 0, ""))
    ELSE Finish([cs EXCEPT !.meta = Without(cs.meta, {generate_cache_key(call.query)})],
                call, Outcome(IF Deleted(call.n) THEN "true" ELSE "false", NoDoc, 0, ""))

\* get_cache_stats, lines 303-308: total_hits is the sum of hit_count over the metadata
RECURSIVE SumHits(_, _)
SumHits(meta, ks) ==
    IF ks = {} THEN 0
    ELSE LET k == CHOOSE x \in ks : TRUE IN meta[k].hit_count + SumHits(meta, ks \ {k})
total_hits(meta) == SumHits(meta, DOMAIN meta)

\* line 311: (total_hits / (total_hits + active_entries)) * 100 if the sum is
\* positive else 0, and line 318: round(cache_hit_rate, 2); the rate is kept
\* in hundredths of a percent (no quotient met here lies halfway between two)
HitRate(hits, act) ==
    IF hits + act > 0 THEN (2 * 10000 * hits + (hits + act)) \div (2 * (hits + act)) ELSE 0

\* lines 313-319: the dictionary get_cache_stats returns
Stats(total, act, hits) ==
    [total_entries |-> total, active_entries |-> act, expired_entries |-> total - act,
     total_hits |-> hits, cache_hit_rate_percent |-> HitRate(hits, act)]
StatsOutcome(s) == [Outcome("stats", NoDoc, 0, "") EXCEPT !.n = 0] @@ [stats |-> s]

\* lines 321-329: any exception gives the dictionary of zeroes
StatsFault == StatsOutcome(Stats(0, 0, 0))

\* get_cache_stats, lines 288-293: obtain the collections, read the clock,
\* count_documents({})
StatsTotal(cs, call, t, fault) ==
    IF fault # "" THEN Finish(cs, [call EXCEPT !.fault = fault, !.faultAt = call.pc], StatsFault)
    ELSE After(cs, [call EXCEPT !.at = t, !.n = Cardinality(DOMAIN cs.results),
                                !.pc = "stats_active"])

\* get_cache_stats, lines 295-298: count_documents({"expires_at": {"$gt": current_time}})
StatsActive(cs, call, t, fault) ==
    IF fault # "" THEN Finish(cs, [call EXCEPT !.fault = fault, !.faultAt = call.pc], StatsFault)
    ELSE After(cs, [call EXCEPT !.keys = {k \in DOMAIN cs.results :
                                             NotExpired(cs.results[k], call.at)},
                                !.pc = "stats_hits"])

\* get_cache_stats, lines 300-319: aggregate the hit counts, compute, return
StatsHits(cs, call, t, fault) ==
    IF fault # "" THEN Finish(cs, [call EXCEPT !.fault = fault, !.faultAt = call.pc], StatsFault)
    ELSE Finish(cs, call,
                StatsOutcome(Stats(call.n, Cardinality(call.keys), total_hits(cs.meta))))

\* documents with expires_at <= t
ExpiredKeys(coll, t) == {k \in DOMAIN coll : coll[k].expires_at[1] <= t}

\* cleanup_expired_cache, lines 247-262 and 277-279: collect the expired keys
SweepFind(cs, call, t, fault) ==
    IF fault # "" THEN Finish(cs, [call EXCEPT !.fault = fault, !.faultAt = call.pc], Outcome("count", NoDoc, 0, ""))
    ELSE LET ks == ExpiredKeys(cs.results, t)
         IN IF ks = {}
            THEN Finish(cs, [call EXCEPT !.at = t], Outcome("count", NoDoc, 0, ""))
            ELSE After(cs, [call EXCEPT !.at = t, !.keys = ks, !.pc = "sweep_results"])

\* cleanup_expired_cache, lines 265-267: delete_many by the expiry filter
SweepResults(cs, call, t, fault) ==
    IF fault # "" THEN Finish(cs, [call EXCEPT !.fault = fault, !.faultAt = call.pc], Outcome("count", NoDoc, 0, ""))
    ELSE LET ks == ExpiredKeys(cs.results, call.at)
         IN After([cs EXCEPT !.results = Without(cs.results, ks),
                             !.lookups = Without(cs.lookups, ks)],
                  [call EXCEPT !.pc = "sweep_meta", !.n = Cardinality(ks)])

\* cleanup_expired_cache, lines 270-279: delete the metadata of the collected keys
SweepMeta(cs, call, t, fault) ==
    IF fault # "" THEN Finish(cs, [call EXCEPT !.fault = fault, !.faultAt = call.pc], Outcome("count", NoDoc, 0, ""))
    ELSE Finish([cs EXCEPT !.meta = Without(cs.meta, call.keys)],
                call, Outcome("count", NoDoc, call.n, ""))

\* the next database operation of a call in progress, at time t
StepOf(cs, call, t, fault) ==
    CASE call.pc = "get_find" -> GetFind(cs, call, t, fault)
      [] call.pc = "get_update" -> GetUpdate(cs, call, t, fault)
      [] call.pc = "store_replace" -> StoreReplace(cs, call, t, fault)
      [] call.pc = "store_update" -> StoreUpdate(cs, call, t, fault)
      [] call.pc = "inv_result" -> InvalidateResult(cs, call, t, fault)
      [] call.pc = "inv_meta" -> InvalidateMeta(cs, call, t, fault)
      [] call.pc = "sweep_find" -> SweepFind(cs, call, t, fault)
      [] call.pc = "sweep_results" -> SweepResults(cs, call, t, fault)
      [] call.pc = "stats_total" -> StatsTotal(cs, call, t, fault)
      [] call.pc = "stats_active" -> StatsActive(cs, call, t, fault)
      [] call.pc = "stats_hits" -> StatsHits(cs, call, t, fault)
      [] OTHER -> SweepMeta(cs, call, t, fault)

\* every way a call can run from where it is to its end with no other call in between
RECURSIVE RunCall(_, _, _)
RunCall(cs, call, t) ==
    IF call.pc = "done" THEN {After(cs, call)}
    ELSE UNION {RunCall(r.cs, r.call, t)
                    : r \in {StepOf(cs, call, t, f) : f \in FaultsAt(call.pc)}}

\* the collections become those of cs
SetCacheState(cs) ==
    /\ resultsColl' = cs.results
    /\ metaColl' = cs.meta
    /\ written' = cs.written
    /\ lookups' = cs.lookups

\* caller c performs the database operation it is waiting on
CacheOp(c, pc) ==
    /\ ccall[c].pc = pc
    /\ \E f \in FaultsAt(pc) :
          LET r == StepOf(CacheState, ccall[c], now, f)
          IN /\ SetCacheState(r.cs)
             /\ ccall' = [ccall EXCEPT ![c] = r.call]
    /\ UNCHANGED ncalls

GetCachedResultFind(c) == CacheOp(c, "get_find")
GetCachedResultUpdate(c) == CacheOp(c, "get_update")
StoreResultReplace(c) == CacheOp(c, "store_replace")
StoreResultUpdate(c) == CacheOp(c, "store_update")
InvalidateCacheResult(c) == CacheOp(c, "inv_result")
InvalidateCacheMeta(c) == CacheOp(c, "inv_meta")
CleanupFind(c) == CacheOp(c, "sweep_find")
CleanupResults(c) == CacheOp(c, "sweep_results")
CleanupMeta(c) == CacheOp(c, "sweep_meta")
GetCacheStatsTotal(c) == CacheOp(c, "stats_total")
GetCacheStatsActive(c) == CacheOp(c, "stats_active")
GetCacheStatsHits(c) == CacheOp(c, "stats_hits")

\* the result a client hands to store_result for a query text: each text has its own
ClientResult(q) ==
    [NoDoc EXCEPT !.query_id = Len(q),
                  !.results = [s \in Sources |-> IF s = "google_scholar" THEN q ELSE <<>>]]
TtlArgs == {<<>>} \cup {<<h>> : h \in 1..MaxTtl}

\* a client that is not inside a call starts one, within the budget of calls
CanCall(c) ==
    /\ ccall[c].pc \in {"idle", "done"}
    /\ ncalls < MaxCalls
    /\ ncalls' = ncalls + 1

\* a client calls one cache operation directly
ClientGet(c, q) ==
    /\ CanCall(c)
    /\ BeginCacheCall(c, "get_find", q, NoDoc, <<>>)
    /\ UNCHANGED <<resultsColl, metaColl, written, lookups>>

ClientStore(c, q, ttl) ==
    /\ CanCall(c)
    /\ BeginCacheCall(c, "store_replace", q, ClientResult(q), ttl)
    /\ UNCHANGED <<resultsColl, metaColl, written, lookups>>

ClientInvalidate(c, q) ==
    /\ CanCall(c)
    /\ BeginCacheCall(c, "inv_result", q, NoDoc, <<>>)
    /\ UNCHANGED <<resultsColl, metaColl, written, lookups>>

ClientCleanup(c) ==
    /\ CanCall(c)
    /\ BeginCacheCall(c, "sweep_find", <<>>, NoDoc, <<>>)
    /\ UNCHANGED <<resultsColl, metaColl, written, lookups>>

ClientStats(c) ==
    /\ CanCall(c)
    /\ BeginCacheCall(c, "stats_total", <<>>, NoDoc, <<>>)
    /\ UNCHANGED <<resultsColl, metaColl, written, lookups>>

(* ------------------------- ResearchOrchestrator ------------------------ *)
QIds == 1..MaxQueries

\* the text of the queries submitted for processing: the first one is
\* "b the a", every later one " a b", which normalizes to the same text
SubmitTexts == IF nextId = 1 THEN {<<2, 3, 1>>} ELSE {<<0, 1, 2>>}

\* what a source adapter call may do: return its list, or raise
AdapterOutcomes == {"ok", "raised"}
\* the adapter outcomes drawn while whole queries are processed
ProcessOutcomes(s) == IF s = "google_scholar" THEN {"ok", "raised"} ELSE {"raised"}

IdleProc ==
    [pc |-> "idle", kind |-> "", qid |-> 0, text |-> <<>>,
     adapter |-> [s \in Sources |-> "idle"], deadline |-> 0, timedOut |-> FALSE,
     results |-> <<>>, ai_summary |-> "none", confidence_score |-> "none",
     ret |-> NoDoc, err |-> "", failedAt |-> "", hit |-> FALSE, set |-> "",
     searched |-> FALSE, synthesized |-> FALSE, stored |-> FALSE]

InitOrch ==
    /\ active = {}
    /\ status = [q \in QIds |-> "none"]
    /\ qtext = [q \in QIds |-> <<>>]
    /\ nextId = 1
    /\ proc = [p \in Procs |-> IdleProc]

\* the list each adapter hands back when it succeeds: two papers, one book,
\* and no article
AdapterValue(s) ==
    CASE s = "google_scholar" -> <<"paper1", "paper2">>
      [] s = "google_books" -> <<"book1">>
      [] OTHER -> <<>>

\* _search_google_scholar / _search_google_books / _search_sciencedirect:
\* an exception of the service becomes the empty list
SearchWrapper(s, out) == IF out = "raised" THEN <<>> ELSE AdapterValue(s)

\* lines 197-205: one key per source, `result or []`
GatheredDropsFailed(ad) ==
    [s \in {x \in Sources : ad[x] # "raised"} |-> SearchWrapper(s, ad[s])]
Gathered(ad) == [s \in Sources |-> SearchWrapper(s, ad[s])]

\* lines 207-213: after the timeout every source missing from `results` gets []
FillMissing(res, ad) == [s \in Sources |-> IF s \in DOMAIN res THEN res[s] ELSE <<>>]

\* line 294: total_results
RECURSIVE TotalOver(_, _)
TotalOver(res, ss) ==
    IF ss = {} THEN 0
    ELSE LET s == CHOOSE x \in ss : TRUE IN Len(res[s]) + TotalOver(res, ss \ {s})
TotalResults(res) == TotalOver(res, DOMAIN res)

\* lines 139-146: the ResearchResult built by process_research_query
NewResultWithoutId(qid, res, summary, confidence) ==
    [query_id |-> 0, results |-> res, ai_summary |-> summary,
     confidence_score |-> confidence, cached |-> FALSE, expires_at |-> <<>>]
NewResult(qid, res, summary, confidence) ==
    [query_id |-> qid, results |-> res, ai_summary |-> summary,
     confidence_score |-> confidence, cached |-> FALSE, expires_at |-> <<>>]

\* asyncio.wait_for(..., timeout=self.timeout_seconds): one timer for the whole gather
TimerDisabled(pr, t) == FALSE
TimerFired(pr, t) == t >= pr.deadline

\* the fan-out starts: three adapter tasks, one wait_for timer
StartFanout(pr) ==
    [pr EXCEPT !.pc = "fanout", !.adapter = [s \in Sources |-> "pending"],
               !.deadline = now + TimeoutSeconds, !.searched = TRUE]

\* submit_research_query with a non-empty text
\* str.strip() on a text whose word 0 stands for a run of whitespace
RECURSIVE LStrip(_)
LStrip(text) == IF text # <<>> /\ Head(text) = 0 THEN LStrip(Tail(text)) ELSE text
RECURSIVE RStrip(_)
RStrip(text) ==
    IF text # <<>> /\ text[Len(text)] = 0 THEN RStrip(SubSeq(text, 1, Len(text) - 1)) ELSE text
Strip(text) == RStrip(LStrip(text))

\* line 81: not query_text or not query_text.strip()
AcceptsBlank(text) == FALSE
EmptyText(text) == text = <<>> \/ Strip(text) = <<>>

\* submit_research_query: ValueError on an empty text; otherwise a fresh id is
\* drawn and the query is tracked as PENDING under it with its stripped text
SubmitResearchQuery(text) ==
    IF EmptyText(text)
    THEN UNCHANGED <<active, status, qtext, nextId, proc>>
    ELSE /\ nextId <= MaxQueries
         /\ status' = [status EXCEPT ![nextId] = "pending"]
         /\ qtext' = [qtext EXCEPT ![nextId] = Strip(text)]
         /\ active' = active \cup {nextId}
         /\ nextId' = nextId + 1
         /\ UNCHANGED proc

\* cancel_query: a tracked query is set FAILED and dropped from the map; any
\* other id changes nothing
CancelQuery(q) ==
    IF q \in active
    THEN /\ status' = [status EXCEPT ![q] = "failed"]
         /\ active' = active \ {q}
         /\ UNCHANGED <<qtext, nextId, proc>>
    ELSE UNCHANGED <<active, status, qtext, nextId, proc>>

NoReply == [op |-> "", id |-> 0, text |-> <<>>, ret |-> FALSE, err |-> ""]

\* lines 81-82 and 101: ValueError, or the new ResearchQuery with its id
SubmitReply(text) ==
    IF EmptyText(text)
    THEN [op |-> "submit", id |-> 0, text |-> text, ret |-> FALSE, err |-> "InvalidInput"]
    ELSE [op |-> "submit", id |-> nextId, text |-> text, ret |-> TRUE, err |-> ""]

\* lines 334-341: True when the id was tracked, else False
CancelReturnsTrue(q) == TRUE
CancelReturn(q) == q \in active
CancelReply(q) ==
    [op |-> "cancel", id |-> q, text |-> <<>>, ret |-> CancelReturn(q), err |-> ""]

\* the texts handed to submit by callers that look at the outcome: empty,
\* blank and " a b "
LifecycleTexts == {<<>>, <<0>>, <<0, 1, 2, 0>>}
\* the process calls made meanwhile
LifecycleProcs == {1}

\* line 113: query_id in self._active_queries
InFlightOrKnown(q) == status[q] # "none"
InFlight(q) == q \in active

\* lines 161-163, the finally block: the id leaves the in-flight map
PoppedNever(q) == active
Popped(q) == active \ {q}

\* process_research_query, lines 113-124: unknown id raises; otherwise mark
\* PROCESSING and await the cache lookup
ProcessCall(p, q) ==
    /\ proc[p].pc = "idle"
    /\ \A o \in Procs : o < p => proc[o].pc # "idle"
    /\ IF ~InFlight(q)
       THEN /\ proc' = [proc EXCEPT ![p].pc = "raised", ![p].kind = "process",
                                    ![p].qid = q, ![p].err = "NotFound",
                                    ![p].failedAt = "call"]
            /\ UNCHANGED status
       ELSE /\ status' = [status EXCEPT ![q] = "processing"]
            /\ proc' = [proc EXCEPT ![p].pc = "lookup", ![p].kind = "process",
                                    ![p].qid = q, ![p].text = qtext[q],
                                    ![p].set = "processing"]
    /\ UNCHANGED <<active, qtext, nextId, cacheVars>>

\* a cached result is returned as it is, and nothing else runs
OnCacheHitFallsThrough(pr, doc) == StartFanout([pr EXCEPT !.hit = TRUE])
OnCacheHit(pr, doc) ==
    [pr EXCEPT !.pc = "returned", !.ret = doc, !.hit = TRUE, !.set = "completed",
               !.text = <<>>]

\* process_research_query, lines 124-131 and 157-163: get_cached_result runs
\* and the process resumes with its outcome
ProcessAfterLookup(p) ==
    /\ proc[p].pc = "lookup"
    /\ \E run \in RunCall(CacheState, NewCall("get_find", proc[p].text, NoDoc, <<>>), now) :
         LET r == run.call.ret
             q == proc[p].qid
         IN /\ SetCacheState(run.cs)
            /\ CASE r.kind = "raise" ->
                   /\ proc' = [proc EXCEPT ![p].pc = "raised", ![p].err = r.exc,
                                           ![p].failedAt = "lookup", ![p].set = "failed",
                                           ![p].text = <<>>]
                   /\ status' = [status EXCEPT ![q] = "failed"]
                   /\ active' = Popped(q)
              [] r.kind = "hit" ->
                   /\ proc' = [proc EXCEPT ![p] = OnCacheHit(proc[p], r.doc)]
                   /\ status' = [status EXCEPT ![q] = proc'[p].set]
                   /\ active' = IF proc'[p].pc = "returned" THEN Popped(q) ELSE active
              [] OTHER ->
                   /\ now + TimeoutSeconds <= MaxTime
                   /\ proc' = [proc EXCEPT ![p] = StartFanout(proc[p])]
                   /\ UNCHANGED <<status, active>>
    /\ UNCHANGED <<qtext, nextId, ccall, ncalls>>

\* a source adapter task of a running fan-out finishes
AdapterFinish(p, s, out) ==
    /\ proc[p].pc = "fanout"
    /\ proc[p].adapter[s] = "pending"
    /\ proc' = [proc EXCEPT ![p].adapter[s] = out]
    /\ UNCHANGED <<queryVars, cacheVars>>

\* _process_with_ai, lines 294-297: synthesis is called unless total_results == 0
AlwaysSynthesize(res) == TRUE
NeedsSynthesis(res) == TotalResults(res) # 0

\* what follows the fan-out in its caller, up to the caller's next await
AfterFanout(p, pr) ==
    IF pr.kind = "process"
    THEN IF ~NeedsSynthesis(pr.results)
         THEN \* _process_with_ai returns (None, None); the result is built and stored
              proc' = [proc EXCEPT ![p] = [pr EXCEPT !.pc = "store", !.stored = TRUE,
                                                     !.adapter = IdleProc.adapter,
                                                     !.deadline = 0]]
         ELSE proc' = [proc EXCEPT ![p] = [pr EXCEPT !.pc = "ai", !.synthesized = TRUE,
                                                     !.adapter = IdleProc.adapter,
                                                     !.deadline = 0]]
    ELSE proc' = [proc EXCEPT ![p] = [pr EXCEPT !.pc = "returned", !.deadline = 0,
                        !.ret = NewResult(0, pr.results, "none", "none")]]

\* _coordinate_research_sources, lines 191-205 and 215-216: gather completed
CoordinateGather(p) ==
    /\ proc[p].pc = "fanout"
    /\ proc[p].kind \in {"process", "coordinate"}
    /\ \A s \in Sources : proc[p].adapter[s] # "pending"
    /\ AfterFanout(p, [proc[p] EXCEPT !.results = Gathered(proc[p].adapter)])
    /\ UNCHANGED <<queryVars, cacheVars>>

\* _coordinate_research_sources, lines 207-216: wait_for timed out
CoordinateTimeout(p) ==
    /\ proc[p].pc = "fanout"
    /\ proc[p].kind \in {"process", "coordinate"}
    /\ TimerFired(proc[p], now)
    /\ \E s \in Sources : proc[p].adapter[s] = "pending"
    /\ AfterFanout(p, [proc[p] EXCEPT !.timedOut = TRUE,
                          !.results = FillMissing(proc[p].results, proc[p].adapter)])
    /\ UNCHANGED <<queryVars, cacheVars>>

\* _process_with_ai, lines 300-310, then lines 139-149: synthesis returned or
\* raised (fallback summary, confidence 0.6); the result is built and stored
AISynthesize(p, ok) ==
    /\ proc[p].pc = "ai"
    /\ proc' = [proc EXCEPT ![p].pc = "store", ![p].stored = TRUE,
                   ![p].ai_summary = IF ok THEN "synthesis" ELSE "fallback",
                   ![p].confidence_score = IF ok THEN "synthesis" ELSE "0.6"]
    /\ UNCHANGED <<queryVars, cacheVars>>

\* lines 149-160: an exception of store_result fails the query
OnStored(r) == IF r.kind = "raise" THEN "failed" ELSE "completed"

\* process_research_query, lines 139-163: store_result runs and the process
\* resumes with its outcome
ProcessAfterStore(p) ==
    /\ proc[p].pc = "store"
    /\ LET q == proc[p].qid
           result == NewResult(q, proc[p].results, proc[p].ai_summary,
                               proc[p].confidence_score)
       IN \E run \in RunCall(CacheState,
                            NewCall("store_replace", proc[p].text, result, <<>>), now) :
            LET r == run.call.ret
                end == OnStored(r)
            IN /\ SetCacheState(run.cs)
               /\ status' = [status EXCEPT ![q] = end]
               /\ proc' = [proc EXCEPT ![p] =
                    [@ EXCEPT !.pc = IF end = "failed" THEN "raised" ELSE "returned",
                              !.set = end,
                              !.err = IF end = "failed" THEN r.exc ELSE "",
                              !.failedAt = IF r.kind = "raise" THEN "store" ELSE "",
                              !.ret = IF end = "failed" THEN NoDoc ELSE result,
                              !.text = <<>>, !.results = <<>>,
                              !.ai_summary = "none", !.confidence_score = "none"]]
    /\ active' = Popped(proc[p].qid)
    /\ UNCHANGED <<qtext, nextId, ccall, ncalls>>

\* a direct call of _coordinate_research_sources
CoordinateCall(p) ==
    /\ proc[p].pc = "idle"
    /\ \A o \in Procs : o < p => proc[o].pc # "idle"
    /\ now + TimeoutSeconds <= MaxTime
    /\ proc' = [proc EXCEPT ![p] = StartFanout([proc[p] EXCEPT !.kind = "coordinate"])]
    /\ UNCHANGED <<queryVars, cacheVars>>

\* search_by_author, lines 406-425: same fan-out over the author wrappers
SearchByAuthor(p) ==
    /\ proc[p].pc = "idle"
    /\ \A o \in Procs : o < p => proc[o].pc # "idle"
    /\ now + TimeoutSeconds <= MaxTime
    /\ proc' = [proc EXCEPT ![p] = StartFanout([proc[p] EXCEPT !.kind = "author"])]
    /\ UNCHANGED <<queryVars, cacheVars>>

\* search_by_author, lines 422-433 and 441: gather completed
AuthorGather(p) ==
    /\ proc[p].pc = "fanout"
    /\ proc[p].kind = "author"
    /\ \A s \in Sources : proc[p].adapter[s] # "pending"
    /\ AfterFanout(p, [proc[p] EXCEPT !.results = Gathered(proc[p].adapter)])
    /\ UNCHANGED <<queryVars, cacheVars>>

\* search_by_author, lines 435-441: wait_for timed out
AuthorTimeout(p) ==
    /\ proc[p].pc = "fanout"
    /\ proc[p].kind = "author"
    /\ TimerFired(proc[p], now)
    /\ \E s \in Sources : proc[p].adapter[s] = "pending"
    /\ AfterFanout(p, [proc[p] EXCEPT !.timedOut = TRUE,
                          !.results = FillMissing(proc[p].results, proc[p].adapter)])
    /\ UNCHANGED <<queryVars, cacheVars>>

(* ----------- source adapters: search_papers and search_books ----------- *)
\* the adapters whose search retries: ScienceDirectService, GoogleBooksService
RetryingAdapters == {"sciencedirect", "google_books"}

\* what one pass of the retry loop can meet: response data with its entries,
\* no response data, an HTTP error status, or another exception (a timeout,
\* a malformed response)
AttemptOutcomes ==
    {[kind |-> "data", entries |-> e] : e \in {<<"r1">>, <<"r1", "r2">>}}
    \cup {[kind |-> k, entries |-> <<>>] : k \in {"nodata", "429", "401", "403", "500", "timeout"}}

IdleSearch == [pc |-> "idle", service |-> "", attempt |-> 0, tried |-> <<>>,
               results |-> <<>>, ret |-> <<>>]

\* the except clauses: whether the loop goes on after a failed attempt.
\* search_papers (lines 404-436) breaks on 401 and 403 and retries every other
\* failure; search_books (lines 320-342) retries 429 and plain exceptions and
\* breaks on every other error status
RetriesAlways(s, kind) == TRUE
Retries(s, kind) ==
    CASE kind \in {"429", "timeout"} -> TRUE
      [] kind \in {"401", "403"} -> FALSE
      [] OTHER -> s = "sciencedirect"

\* the search is called: an empty list at once without an API key
\* (search_papers, lines 366-368), else the loop starts
SearchCall(s, hasKey) ==
    /\ search.pc \in {"idle", "returned"}
    /\ search' = IF s = "sciencedirect" /\ ~hasKey
                 THEN [IdleSearch EXCEPT !.pc = "returned", !.service = s]
                 ELSE [IdleSearch EXCEPT !.pc = "attempt", !.service = s]

\* the loop is left: `return results`
SearchReturn(sr) == [sr EXCEPT !.pc = "returned", !.ret = sr.results]

\* `for attempt in range(self.max_retries)`: the next pass, or the end of the loop
NextPass(sr) ==
    IF sr.attempt + 1 < MaxRetries
    THEN [sr EXCEPT !.pc = "attempt", !.attempt = @ + 1]
    ELSE SearchReturn(sr)

\* one pass of the loop up to its return, continue, break or backoff sleep
SearchAttempt(out) ==
    /\ search.pc = "attempt"
    /\ LET sr == [search EXCEPT !.tried = Append(@, out)]
       IN search' =
            CASE out.kind = "data" ->
                   SearchReturn([sr EXCEPT !.results = sr.results \o out.entries])
              [] out.kind = "nodata" -> NextPass(sr)
              [] OTHER ->
                   IF ~Retries(sr.service, out.kind) THEN SearchReturn(sr)
                   ELSE IF sr.attempt < MaxRetries - 1 THEN [sr EXCEPT !.pc = "backoff"]
                   ELSE NextPass(sr)

\* await asyncio.sleep(delay) is over
SearchBackoff ==
    /\ search.pc = "backoff"
    /\ search' = NextPass(search)

(* ----------------- ResearchOrchestrator.get_service_health ------------- *)
\* the components probed after the orchestrator's own entry, in the code's order
Probed == <<"google_scholar", "google_books", "sciencedirect", "cache">>
Components == {Probed[i] : i \in DOMAIN Probed}

\* what a status probe of an injected service may do: return its status
\* dictionary, or raise an exception with some text
ErrorTexts == {"unreachable", "bad credentials"}
ProbeOutcomes(c) ==
    {[kind |-> "return", value |-> [service |-> c, status |-> "active"], text |-> ""]}
    \cup {[kind |-> "raise", value |-> <<>>, text |-> m] : m \in ErrorTexts}

IdleHealth == [pc |-> "idle", probes |-> <<>>, report |-> <<>>, err |-> ""]

\* lines 368-386, each try/except: the probe's value, or on an exception
\* {"status": "error", "error": str(e)}
EntryWithoutText(out) ==
    IF out.kind = "raise" THEN [status |-> "error", error |-> ""] ELSE out.value
ProbeEntry(out) ==
    IF out.kind = "raise" THEN [status |-> "error", error |-> out.text] ELSE out.value

\* lines 359-381: the orchestrator's own entry and the three adapter probes,
\* up to the await of the cache probe
GetServiceHealth(outs) ==
    /\ health.pc \in {"idle", "returned"}
    /\ health' = [pc |-> "cache",
                  probes |-> outs,
                  report |-> [c \in Sources |-> ProbeEntry(outs[c])]
                             @@ ("orchestrator" :>
                                    [status |-> "healthy",
                                     active_queries |-> Cardinality(active),
                                     timeout_seconds |-> TimeoutSeconds]),
                  err |-> ""]
    /\ UNCHANGED orchVars

\* lines 383-388: the awaited cache probe, then the report is returned
HealthCacheProbe(out) ==
    /\ health.pc = "cache"
    /\ health' = [health EXCEPT !.pc = "returned",
                                !.probes = ("cache" :> out) @@ @,
                                !.report = ("cache" :> ProbeEntry(out)) @@ @]
    /\ UNCHANGED orchVars

(* --------------------------- specifications ---------------------------- *)
vars == <<now, requests, swLock, swpc, swkey, swnow, swcur, swallowed, swinfo, admitted,
          buckets, tbLock, tbpc, tbkey, tbcost, tbnow, tballowed, tbinfo,
          windows, throttle, req,
          resultsColl, metaColl, ccall, written, lookups, ncalls,
          active, status, qtext, nextId, proc, reply, fn, health, search, status_info>>

Init ==
    /\ now = 0
    /\ InitWindow
    /\ InitBucket
    /\ InitManager
    /\ InitCache
    /\ InitOrch
    /\ reply = NoReply
    /\ fn = NoFn
    /\ health = IdleHealth
    /\ search = IdleSearch
    /\ status_info = NoStatus

\* submit, process and cancel running concurrently over the cache
Next ==
    \/ (Tick /\ UNCHANGED <<apiVars, swVars, tbVars, mgrVars, cacheVars, orchVars>>)
    \/ \E t \in SubmitTexts : (SubmitResearchQuery(t) /\ UNCHANGED <<apiVars, clockVars, swVars, tbVars, mgrVars, cacheVars>>)
    \/ \E q \in QIds : (CancelQuery(q) /\ UNCHANGED <<apiVars, clockVars, swVars, tbVars, mgrVars, cacheVars>>)
    \/ \E p \in Procs, q \in QIds : (ProcessCall(p, q) /\ UNCHANGED <<apiVars, clockVars, swVars, tbVars, mgrVars>>)
    \/ \E p \in Procs : (ProcessAfterLookup(p) /\ UNCHANGED <<apiVars, clockVars, swVars, tbVars, mgrVars>>)
    \/ \E p \in Procs, s \in Sources : \E out \in ProcessOutcomes(s) :
          (AdapterFinish(p, s, out) /\ UNCHANGED <<apiVars, clockVars, swVars, tbVars, mgrVars>>)
    \/ \E p \in Procs : (CoordinateGather(p) /\ UNCHANGED <<apiVars, clockVars, swVars, tbVars, mgrVars>>)
    \/ \E p \in Procs : (CoordinateTimeout(p) /\ UNCHANGED <<apiVars, clockVars, swVars, tbVars, mgrVars>>)
    \/ \E p \in Procs, ok \in BOOLEAN : (AISynthesize(p, ok) /\ UNCHANGED <<apiVars, clockVars, swVars, tbVars, mgrVars>>)
    \/ \E p \in Procs : (ProcessAfterStore(p) /\ UNCHANGED <<apiVars, clockVars, swVars, tbVars, mgrVars>>)

Spec == Init /\ [][Next]_vars

\* the fan-out on its own: _coordinate_research_sources and search_by_author
NextFanout ==
    \/ (Tick /\ UNCHANGED <<apiVars, swVars, tbVars, mgrVars, cacheVars, orchVars>>)
    \/ \E p \in Procs : (CoordinateCall(p) /\ UNCHANGED <<apiVars, clockVars, swVars, tbVars, mgrVars>>)
    \/ \E p \in Procs : (SearchByAuthor(p) /\ UNCHANGED <<apiVars, clockVars, swVars, tbVars, mgrVars>>)
    \/ \E p \in Procs, s \in Sources, out \in AdapterOutcomes :
          (AdapterFinish(p, s, out) /\ UNCHANGED <<apiVars, clockVars, swVars, tbVars, mgrVars>>)
    \/ \E p \in Procs : (CoordinateGather(p) /\ UNCHANGED <<apiVars, clockVars, swVars, tbVars, mgrVars>>)
    \/ \E p \in Procs : (CoordinateTimeout(p) /\ UNCHANGED <<apiVars, clockVars, swVars, tbVars, mgrVars>>)
    \/ \E p \in Procs : (AuthorGather(p) /\ UNCHANGED <<apiVars, clockVars, swVars, tbVars, mgrVars>>)
    \/ \E p \in Procs : (AuthorTimeout(p) /\ UNCHANGED <<apiVars, clockVars, swVars, tbVars, mgrVars>>)

SpecFanout == Init /\ [][NextFanout]_vars

\* the event loop keeps running: as long as time can pass or a callback is
\* ready (a fired timer, a finished gather), one of them happens; nothing
\* obliges an adapter to finish
FanoutResumes(p) ==
    (CoordinateGather(p) \/ CoordinateTimeout(p) \/ AuthorGather(p) \/ AuthorTimeout(p))
        /\ UNCHANGED <<apiVars, clockVars, swVars, tbVars, mgrVars>>

FairFanout ==
    /\ SpecFanout
    /\ WF_vars((Tick /\ UNCHANGED <<apiVars, swVars, tbVars, mgrVars, cacheVars, orchVars>>)
                  \/ \E p \in Procs : FanoutResumes(p))

\* concurrent is_allowed calls on one sliding-window limiter
NextWindow ==
    \/ (Tick /\ UNCHANGED <<apiVars, swVars, tbVars, mgrVars, cacheVars, orchVars>>)
    \/ \E c \in Callers, k \in RKeys : (SWCall(c, k) /\ UNCHANGED <<apiVars, clockVars, tbVars, mgrVars, cacheVars, orchVars>>)
    \/ \E c \in Callers : (SWAcquire(c) /\ UNCHANGED <<apiVars, clockVars, tbVars, mgrVars, cacheVars, orchVars>>)
    \/ \E c \in Callers : (SWCheck(c) /\ UNCHANGED <<apiVars, clockVars, tbVars, mgrVars, cacheVars, orchVars>>)
    \/ \E c \in Callers : (SWRecord(c) /\ UNCHANGED <<apiVars, clockVars, tbVars, mgrVars, cacheVars, orchVars>>)
    \/ \E c \in Callers : (SWReturn(c) /\ UNCHANGED <<apiVars, clockVars, tbVars, mgrVars, cacheVars, orchVars>>)

SpecWindow == Init /\ [][NextWindow]_vars

\* concurrent is_allowed calls on one token bucket limiter
NextBucket ==
    \/ (Tick /\ UNCHANGED <<apiVars, swVars, tbVars, mgrVars, cacheVars, orchVars>>)
    \/ \E c \in Callers, k \in RKeys, cost \in Costs :
          (TBCall(c, k, cost) /\ UNCHANGED <<apiVars, clockVars, swVars, mgrVars, cacheVars, orchVars>>)
    \/ \E c \in Callers : (TBAcquire(c) /\ UNCHANGED <<apiVars, clockVars, swVars, mgrVars, cacheVars, orchVars>>)
    \/ \E c \in Callers : (TBReadClock(c) /\ UNCHANGED <<apiVars, clockVars, swVars, mgrVars, cacheVars, orchVars>>)
    \/ \E c \in Callers : (TBBody(c) /\ UNCHANGED <<apiVars, clockVars, swVars, mgrVars, cacheVars, orchVars>>)
    \/ \E c \in Callers : (TBReturn(c) /\ UNCHANGED <<apiVars, clockVars, swVars, mgrVars, cacheVars, orchVars>>)

SpecBucket == Init /\ [][NextBucket]_vars

\* clients calling the cache operations concurrently
NextCache ==
    \/ (Tick /\ UNCHANGED <<apiVars, swVars, tbVars, mgrVars, cacheVars, orchVars>>)
    \/ \E c \in Callers, q \in Texts : (ClientGet(c, q) /\ UNCHANGED <<apiVars, clockVars, swVars, tbVars, mgrVars, orchVars>>)
    \/ \E c \in Callers, q \in Texts, ttl \in TtlArgs :
          (ClientStore(c, q, ttl) /\ UNCHANGED <<apiVars, clockVars, swVars, tbVars, mgrVars, orchVars>>)
    \/ \E c \in Callers, q \in Texts : (ClientInvalidate(c, q) /\ UNCHANGED <<apiVars, clockVars, swVars, tbVars, mgrVars, orchVars>>)
    \/ \E c \in Callers : (ClientCleanup(c) /\ UNCHANGED <<apiVars, clockVars, swVars, tbVars, mgrVars, orchVars>>)
    \/ \E c \in Callers : (GetCachedResultFind(c) /\ UNCHANGED <<apiVars, clockVars, swVars, tbVars, mgrVars, orchVars>>)
    \/ \E c \in Callers : (GetCachedResultUpdate(c) /\ UNCHANGED <<apiVars, clockVars, swVars, tbVars, mgrVars, orchVars>>)
    \/ \E c \in Callers : (StoreResultReplace(c) /\ UNCHANGED <<apiVars, clockVars, swVars, tbVars, mgrVars, orchVars>>)
    \/ \E c \in Callers : (StoreResultUpdate(c) /\ UNCHANGED <<apiVars, clockVars, swVars, tbVars, mgrVars, orchVars>>)
    \/ \E c \in Callers : (InvalidateCacheResult(c) /\ UNCHANGED <<apiVars, clockVars, swVars, tbVars, mgrVars, orchVars>>)
    \/ \E c \in Callers : (InvalidateCacheMeta(c) /\ UNCHANGED <<apiVars, clockVars, swVars, tbVars, mgrVars, orchVars>>)
    \/ \E c \in Callers : (CleanupFind(c) /\ UNCHANGED <<apiVars, clockVars, swVars, tbVars, mgrVars, orchVars>>)
    \/ \E c \in Callers : (CleanupResults(c) /\ UNCHANGED <<apiVars, clockVars, swVars, tbVars, mgrVars, orchVars>>)
    \/ \E c \in Callers : (CleanupMeta(c) /\ UNCHANGED <<apiVars, clockVars, swVars, tbVars, mgrVars, orchVars>>)

SpecCache == Init /\ [][NextCache]_vars

\* the ttl_hours a caller of store_result can pass (Optional[int]): none, or a
\* number of hours, zero included
StoreTtlArgs == {<<>>} \cup {<<h>> : h \in 0..MaxTtl}

\* clients calling store_result concurrently, with every ttl_hours
NextStore ==
    \/ (Tick /\ UNCHANGED <<apiVars, swVars, tbVars, mgrVars, cacheVars, orchVars>>)
    \/ \E c \in Callers, q \in Texts, ttl \in StoreTtlArgs :
          (ClientStore(c, q, ttl) /\ UNCHANGED <<apiVars, clockVars, swVars, tbVars, mgrVars, orchVars>>)
    \/ \E c \in Callers : (StoreResultReplace(c) /\ UNCHANGED <<apiVars, clockVars, swVars, tbVars, mgrVars, orchVars>>)
    \/ \E c \in Callers : (StoreResultUpdate(c) /\ UNCHANGED <<apiVars, clockVars, swVars, tbVars, mgrVars, orchVars>>)

SpecStore == Init /\ [][NextStore]_vars

\* callers of generate_cache_key, each with one text written in two ways
InitNormalize ==
    /\ now = 0
    /\ InitWindow
    /\ InitBucket
    /\ InitManager
    /\ InitCache
    /\ InitOrch
    /\ reply = NoReply
    /\ health = IdleHealth
    /\ search = IdleSearch
    /\ status_info = NoStatus
    /\ \E s \in RawTexts : fn = [NoFn EXCEPT !.pc = "called", !.text = s]

NextNormalize ==
    \E v \in Variants(fn.text) :
        (GenerateCacheKeys(v) /\ UNCHANGED <<reply, health, search, status_info, clockVars, swVars, tbVars, mgrVars, cacheVars, orchVars>>)

SpecNormalize == InitNormalize /\ [][NextNormalize]_vars

\* health reports taken while queries are submitted and cancelled
NextHealth ==
    \/ \E t \in SubmitTexts :
          (SubmitResearchQuery(t) /\ UNCHANGED <<apiVars, clockVars, swVars, tbVars, mgrVars, cacheVars>>)
    \/ \E q \in QIds :
          (CancelQuery(q) /\ UNCHANGED <<apiVars, clockVars, swVars, tbVars, mgrVars, cacheVars>>)
    \/ \E outs \in [Sources -> UNION {ProbeOutcomes(s) : s \in Sources}] :
          /\ \A s \in Sources : outs[s] \in ProbeOutcomes(s)
          /\ GetServiceHealth(outs)
          /\ UNCHANGED <<reply, fn, search, status_info, clockVars, swVars, tbVars, mgrVars, cacheVars>>
    \/ \E out \in ProbeOutcomes("cache") :
          (HealthCacheProbe(out) /\ UNCHANGED <<reply, fn, search, status_info, clockVars, swVars, tbVars, mgrVars, cacheVars>>)

SpecHealth == Init /\ [][NextHealth]_vars

\* get_cache_stats called while stores, lookups and sweeps run
NextStats ==
    \/ (Tick /\ UNCHANGED <<apiVars, swVars, tbVars, mgrVars, cacheVars, orchVars>>)
    \/ \E c \in Callers, q \in Texts : (ClientGet(c, q) /\ UNCHANGED <<apiVars, clockVars, swVars, tbVars, mgrVars, orchVars>>)
    \/ \E c \in Callers, q \in Texts, ttl \in TtlArgs : (ClientStore(c, q, ttl) /\ UNCHANGED <<apiVars, clockVars, swVars, tbVars, mgrVars, orchVars>>)
    \/ \E c \in Callers : (ClientCleanup(c) /\ UNCHANGED <<apiVars, clockVars, swVars, tbVars, mgrVars, orchVars>>)
    \/ \E c \in Callers : (ClientStats(c) /\ UNCHANGED <<apiVars, clockVars, swVars, tbVars, mgrVars, orchVars>>)
    \/ \E c \in Callers : (GetCachedResultFind(c) /\ UNCHANGED <<apiVars, clockVars, swVars, tbVars, mgrVars, orchVars>>)
    \/ \E c \in Callers : (GetCachedResultUpdate(c) /\ UNCHANGED <<apiVars, clockVars, swVars, tbVars, mgrVars, orchVars>>)
    \/ \E c \in Callers : (StoreResultReplace(c) /\ UNCHANGED <<apiVars, clockVars, swVars, tbVars, mgrVars, orchVars>>)
    \/ \E c \in Callers : (StoreResultUpdate(c) /\ UNCHANGED <<apiVars, clockVars, swVars, tbVars, mgrVars, orchVars>>)
    \/ \E c \in Callers : (CleanupFind(c) /\ UNCHANGED <<apiVars, clockVars, swVars, tbVars, mgrVars, orchVars>>)
    \/ \E c \in Callers : (CleanupResults(c) /\ UNCHANGED <<apiVars, clockVars, swVars, tbVars, mgrVars, orchVars>>)
    \/ \E c \in Callers : (CleanupMeta(c) /\ UNCHANGED <<apiVars, clockVars, swVars, tbVars, mgrVars, orchVars>>)
    \/ \E c \in Callers : (GetCacheStatsTotal(c) /\ UNCHANGED <<apiVars, clockVars, swVars, tbVars, mgrVars, orchVars>>)
    \/ \E c \in Callers : (GetCacheStatsActive(c) /\ UNCHANGED <<apiVars, clockVars, swVars, tbVars, mgrVars, orchVars>>)
    \/ \E c \in Callers : (GetCacheStatsHits(c) /\ UNCHANGED <<apiVars, clockVars, swVars, tbVars, mgrVars, orchVars>>)

SpecStats == Init /\ [][NextStats]_vars

\* searches of the retrying adapters, one after another
NextSearch ==
    \/ \E s \in RetryingAdapters, hasKey \in BOOLEAN : (SearchCall(s, hasKey) /\ UNCHANGED <<reply, fn, health, status_info, clockVars, swVars, tbVars, mgrVars, cacheVars, orchVars>>)
    \/ \E out \in AttemptOutcomes : (SearchAttempt(out) /\ UNCHANGED <<reply, fn, health, status_info, clockVars, swVars, tbVars, mgrVars, cacheVars, orchVars>>)
    \/ (SearchBackoff /\ UNCHANGED <<reply, fn, health, status_info, clockVars, swVars, tbVars, mgrVars, cacheVars, orchVars>>)

SpecSearch == Init /\ [][NextSearch]_vars

\* requests passing through check_rate_limits one after another; no await of
\* a request suspends it (its limiters' locks are free), so its checks run
\* back to back and the clock advances between requests
NextManager ==
    \/ (Tick /\ req.pc \in {"idle", "done"} /\ UNCHANGED <<apiVars, swVars, tbVars, mgrVars, cacheVars, orchVars>>)
    \/ \E ip \in ClientIps, user \in UserIds, path \in Paths :
          (CheckRateLimits(ip, user, path) /\ UNCHANGED <<apiVars, clockVars, swVars, tbVars, cacheVars, orchVars>>)
    \/ \E n \in WindowSet : (CheckWindow(n) /\ UNCHANGED <<apiVars, clockVars, swVars, tbVars, cacheVars, orchVars>>)
    \/ (CheckThrottle /\ UNCHANGED <<apiVars, clockVars, swVars, tbVars, cacheVars, orchVars>>)

SpecManager == Init /\ [][NextManager]_vars

\* the same requests, with calls of the status endpoint in between
NextStatus ==
    \/ (Tick /\ req.pc \in {"idle", "done"} /\ UNCHANGED <<apiVars, swVars, tbVars, mgrVars, cacheVars, orchVars>>)
    \/ \E ip \in ClientIps, user \in UserIds, path \in StatusPaths :
          (CheckRateLimits(ip, user, path) /\ UNCHANGED <<apiVars, clockVars, swVars, tbVars, cacheVars, orchVars>>)
    \/ \E n \in WindowSet : (CheckWindow(n) /\ UNCHANGED <<apiVars, clockVars, swVars, tbVars, cacheVars, orchVars>>)
    \/ (CheckThrottle /\ UNCHANGED <<apiVars, clockVars, swVars, tbVars, cacheVars, orchVars>>)
    \/ \E ip \in ClientIps, user \in UserIds :
          (GetRateLimitStatus(ip, user)
              /\ UNCHANGED <<reply, fn, health, search, clockVars, swVars, tbVars, cacheVars, orchVars>>)

SpecStatus == Init /\ [][NextStatus]_vars

\* callers of submit and cancel that look at what they get back, around one
\* process call
NextLifecycle ==
    \/ (Tick /\ UNCHANGED <<apiVars, swVars, tbVars, mgrVars, cacheVars, orchVars>>)
    \/ \E t \in LifecycleTexts :
          (SubmitResearchQuery(t) /\ reply' = SubmitReply(t) /\ UNCHANGED <<fn, health, search, status_info>>
              /\ UNCHANGED <<clockVars, swVars, tbVars, mgrVars, cacheVars>>)
    \/ \E q \in QIds :
          (CancelQuery(q) /\ reply' = CancelReply(q) /\ UNCHANGED <<fn, health, search, status_info>>
              /\ UNCHANGED <<clockVars, swVars, tbVars, mgrVars, cacheVars>>)
    \/ \E p \in LifecycleProcs, q \in QIds :
          (ProcessCall(p, q) /\ UNCHANGED <<apiVars, clockVars, swVars, tbVars, mgrVars>>)
    \/ \E p \in LifecycleProcs : (ProcessAfterLookup(p) /\ UNCHANGED <<apiVars, clockVars, swVars, tbVars, mgrVars>>)
    \/ \E p \in LifecycleProcs, s \in Sources : \E out \in ProcessOutcomes(s) :
          (AdapterFinish(p, s, out) /\ UNCHANGED <<apiVars, clockVars, swVars, tbVars, mgrVars>>)
    \/ \E p \in LifecycleProcs : (CoordinateGather(p) /\ UNCHANGED <<apiVars, clockVars, swVars, tbVars, mgrVars>>)
    \/ \E p \in LifecycleProcs : (CoordinateTimeout(p) /\ UNCHANGED <<apiVars, clockVars, swVars, tbVars, mgrVars>>)
    \/ \E p \in LifecycleProcs, ok \in BOOLEAN : (AISynthesize(p, ok) /\ UNCHANGED <<apiVars, clockVars, swVars, tbVars, mgrVars>>)
    \/ \E p \in LifecycleProcs : (ProcessAfterStore(p) /\ UNCHANGED <<apiVars, clockVars, swVars, tbVars, mgrVars>>)

SpecLifecycle == Init /\ [][NextLifecycle]_vars

\* a process call that is suspended resumes: the awaited cache call, adapter
\* or synthesis returns or raises, or the gather or its timer is ready
ProcessResumes(p) ==
    (\/ ProcessAfterLookup(p)
     \/ \E s \in Sources : \E out \in ProcessOutcomes(s) : AdapterFinish(p, s, out)
     \/ CoordinateGather(p)
     \/ CoordinateTimeout(p)
     \/ \E ok \in BOOLEAN : AISynthesize(p, ok)
     \/ ProcessAfterStore(p))
        /\ UNCHANGED <<apiVars, clockVars, swVars, tbVars, mgrVars>>

\* every awaited call of a process call comes back, and the event loop runs
\* the call on
FairProcess ==
    /\ SpecLifecycle
    /\ \A p \in LifecycleProcs : WF_vars(ProcessResumes(p))

(* ------------------------------- claims -------------------------------- *)

\* number of admitted calls on key k stamped inside the closed interval [t - W, t]
AdmittedIn(k, t) ==
    Cardinality({i \in DOMAIN admitted[k] :
                    admitted[k][i] >= t - WindowSeconds /\ admitted[k][i] <= t})

\* C2: for every key and every trailing interval of length WindowSeconds, the
\* number of admitted is_allowed calls stamped inside it never exceeds
\* MaxRequests, whatever the interleaving of the concurrent calls.
C2_WindowNeverOverAdmits ==
    \A k \in RKeys : \A t \in Times : AdmittedIn(k, t) <= MaxRequests

\* C2 witness: a window is full, one caller has been rejected on that key while
\* another caller's call on the same key is still in flight.
C2_Witness ==
    \E k \in RKeys : \E c, d \in Callers :
        /\ c # d
        /\ AdmittedIn(k, now) = MaxRequests
        /\ swpc[c] = "done" /\ swkey[c] = k /\ ~swallowed[c]
        /\ swpc[d] \in {"acquire", "check", "record"} /\ swkey[d] = k

\* C3 (as claimed): after every token-bucket call the stored bucket and the
\* reported info both satisfy 0 <= tokens <= capacity.
C3_TokensWithinBounds ==
    /\ \A k \in DOMAIN buckets : buckets[k].tokens >= 0 /\ buckets[k].tokens <= Capacity
    /\ \A c \in Callers : tbpc[c] = "done" =>
            tbinfo[c].tokens >= 0 /\ tbinfo[c].tokens <= Capacity

\* C1 (as claimed): a query's status only moves Pending -> Processing ->
\* Completed or Failed (cancel also Pending -> Failed), and a Completed or Failed
\* status never changes again.
StatusMoves ==
    {<<"none", "pending">>, <<"pending", "processing">>, <<"pending", "failed">>,
     <<"processing", "completed">>, <<"processing", "failed">>}

C1_StatusLifecycle ==
    [][\A q \in QIds : status'[q] = status[q] \/ <<status[q], status'[q]>> \in StatusMoves]_vars

\* C4: when the gather of a fan-out completes, the returned map has exactly the
\* three source keys, a raising adapter is mapped to the empty list, a succeeding
\* adapter to exactly the list it returned, and the fan-out does not raise.
C4_PartialFailureIsolated ==
    \A p \in Procs :
        /\ proc[p].pc # "raised"
        /\ (proc[p].pc = "returned" /\ ~proc[p].timedOut) =>
              /\ DOMAIN proc[p].ret.results = Sources
              /\ \A s \in Sources :
                    proc[p].ret.results[s] =
                        IF proc[p].adapter[s] = "raised" THEN <<>> ELSE AdapterValue(s)

\* C4 witness: fan-outs of both kinds have returned, one of them with two of
\* its three adapters raising and the third one's papers kept.
C4_Witness ==
    \E p, o \in Procs :
        /\ proc[p].pc = "returned" /\ proc[p].kind = "coordinate" /\ ~proc[p].timedOut
        /\ Cardinality({s \in Sources : proc[p].adapter[s] = "raised"}) = 2
        /\ proc[p].ret.results["google_scholar"] = AdapterValue("google_scholar")
        /\ proc[o].pc = "returned" /\ proc[o].kind = "author" /\ ~proc[o].timedOut
        /\ \E s \in Sources : proc[o].adapter[s] = "raised"

\* C5: a fan-out whose adapters never return stops waiting: its single timer,
\* set when the fan-out starts and never moved by an adapter, fires and the
\* fan-out returns all three sources mapped to the empty list; no fan-out waits
\* forever.
C5_TimeoutEndsFanout ==
    /\ [](\A p \in Procs :
            (proc[p].pc = "returned" /\ proc[p].timedOut
                /\ \A s \in Sources : proc[p].adapter[s] = "pending")
            => proc[p].ret.results = NoResults)
    /\ [][\A p \in Procs :
            (proc[p].pc = "fanout" /\ proc'[p].pc = "fanout")
            => proc'[p].deadline = proc[p].deadline]_vars
    /\ \A p \in Procs : (proc[p].pc = "fanout") ~> (proc[p].pc = "returned")

\* C5 witness: a fan-out has returned on its timer with every adapter still pending.
C5_Witness ==
    \E p \in Procs :
        /\ proc[p].pc = "returned" /\ proc[p].timedOut
        /\ \A s \in Sources : proc[p].adapter[s] = "pending"
        /\ proc[p].ret.results = NoResults

\* C6 (as claimed): after the timeout, an adapter that had completed before it
\* keeps the results it returned, the others are empty.
C6_CompletedKeptOnTimeout ==
    \A p \in Procs :
        (proc[p].pc = "returned" /\ proc[p].timedOut) =>
            \A s \in Sources :
                proc[p].ret.results[s] =
                    IF proc[p].adapter[s] = "ok" THEN AdapterValue(s) ELSE <<>>

\* C7: when the cache lookup of process returns a result, process returns that
\* result, the query is set Completed, and no source adapter, no synthesis and
\* no cache store has been or will be invoked by that call.
C7_CacheHitShortCircuits ==
    /\ [](\A p \in Procs :
            proc[p].hit =>
                /\ proc[p].pc = "returned" /\ proc[p].set = "completed"
                /\ proc[p].ret.cached
                /\ ~proc[p].searched /\ ~proc[p].synthesized /\ ~proc[p].stored)
    /\ [][\A p \in Procs :
            (proc[p].pc = "lookup" /\ proc'[p].hit) =>
                /\ proc'[p].ret =
                      AsCachedResult(FindValid(resultsColl,
                                               generate_cache_key(proc[p].text), now))
                /\ status'[proc[p].qid] = "completed"]_vars

\* C7 witness: a process call has been served from the cache.
C7_Witness ==
    \E p \in Procs : proc[p].hit /\ proc[p].pc = "returned" /\ proc[p].ret.query_id # 0

\* C8: a lookup whose find runs at time t on a key last stored with result r
\* and expiry e (and not invalidated since) yields r marked cached when t < e and
\* absent when t >= e, whatever text with that key it was given.
C8_StoreLookupRoundTrip ==
    /\ [][\A c \in Callers :
            (ccall[c].pc = "get_find" /\ ccall'[c].pc # "get_find"
                /\ ccall'[c].ret.kind # "raise") =>
            LET key == generate_cache_key(ccall[c].query)
            IN IF key \in DOMAIN written /\ now < written[key].expires
               THEN /\ ccall'[c].pc = "get_update"
                    /\ ccall'[c].found = [written[key].r EXCEPT !.cached = TRUE,
                                            !.expires_at = <<written[key].expires>>]
               ELSE ccall'[c].ret.kind = "miss"]_vars
    /\ [][\A c \in Callers :
            (ccall[c].pc = "get_update" /\ ccall'[c].pc = "done"
                /\ ccall'[c].ret.kind # "raise") =>
                /\ ccall'[c].ret.kind = "hit"
                /\ ccall'[c].ret.doc = ccall[c].found
                /\ ccall'[c].ret.doc.cached]_vars

\* C8 witness: after a store, one lookup under another text with the same key
\* has been served the result, and a lookup at or after the expiry was absent.
C8_Witness ==
    \E c, d \in Callers :
        /\ ccall[c].pc = "done" /\ ccall[c].ret.kind = "hit"
        /\ generate_cache_key(ccall[c].query) \in DOMAIN written
        /\ ccall[c].ret.doc.query_id # Len(ccall[c].query)
        /\ ccall[d].pc = "done" /\ ccall[d].op = "get_find" /\ ccall[d].ret.kind = "miss"
        /\ generate_cache_key(ccall[d].query) \in DOMAIN written
        /\ ccall[d].at >= written[generate_cache_key(ccall[d].query)].expires

\* C9 (as claimed): when the store step ends a process call whose fan-out and
\* synthesis succeeded, however the store itself went, process returns the
\* aggregated result and the query is Completed.
C9_StoreFailureTolerated ==
    [][\A p \in Procs :
        (proc[p].pc = "store" /\ proc[p].ai_summary = "synthesis" /\ proc'[p].pc # "store") =>
            /\ proc'[p].pc = "returned"
            /\ proc'[p].ret = NewResult(proc[p].qid, proc[p].results, proc[p].ai_summary,
                                        proc[p].confidence_score)
            /\ status'[proc[p].qid] = "completed"]_vars

\* C10 (as claimed): store, invalidate and the sweep never raise; a persistence
\* fault shows as False (0 for the sweep).
C10_CacheWritesNeverRaise ==
    \A c \in Callers :
        (ccall[c].pc = "done" /\ ccall[c].op \in {"store_replace", "inv_result", "sweep_find"})
            => ccall[c].ret.kind # "raise"

C12_ConnectionErrorIsMiss ==
    \A c \in Callers :
        (ccall[c].pc = "done" /\ ccall[c].op = "get_find" /\ ccall[c].fault = "DatabaseError")
            => ccall[c].ret.kind = "miss"

\* no cache operation is in progress
Quiescent == \A c \in Callers : ccall[c].pc \in {"idle", "done"}

\* number of lookups that returned an entry that still exists
RECURSIVE SumLookups(_)
SumLookups(ks) ==
    IF ks = {} THEN 0
    ELSE LET k == CHOOSE x \in ks : TRUE IN lookups[k] + SumLookups(ks \ {k})

\* C13 (as claimed): a lookup that returns a result raises the hit count of its
\* key by exactly 1, a lookup that returns absent changes no stored state, and
\* the total_hits of the statistics equals the number of lookups that returned
\* an entry that still exists.
C13_HitCountExact ==
    /\ [][\A c \in Callers :
            (ccall[c].pc = "get_update" /\ ccall'[c].pc = "done"
                /\ ccall'[c].ret.kind = "hit") =>
            LET key == generate_cache_key(ccall[c].query)
            IN metaColl'[key].hit_count =
                  (IF key \in DOMAIN metaColl THEN metaColl[key].hit_count ELSE 0) + 1]_vars
    /\ [][\A c \in Callers :
            (ccall[c].pc = "get_find" /\ ccall'[c].pc = "done"
                /\ ccall'[c].ret.kind = "miss") =>
            (resultsColl' = resultsColl /\ metaColl' = metaColl)]_vars
    /\ [](Quiescent => total_hits(metaColl) = SumLookups(DOMAIN lookups))

\* the checks that apply to a request, in the order of the composition
ApplicableChecks(user, path) ==
    <<"global", "ip">> \o (IF user # "" THEN <<"user">> ELSE <<>>)
        \o (IF ResearchPath(path) THEN <<"research">> ELSE <<>>) \o <<"throttle">>

\* a limiter consulted now on the request's key would refuse it
WouldRefuse(n) ==
    IF n = "throttle"
    THEN ~ThrottleIsAllowed(throttle, KeyOf(n, req.ip, req.user), now).allowed
    ELSE Len(EvictOld(windows[n][KeyOf(n, req.ip, req.user)], now - WindowOf(n))) >= LimitOf(n)

\* C14: check_rate_limits consults whitelist, global, per-IP, per-user (only with a
\* user id), research window (only for research paths) and token bucket in that
\* order: the limiters consulted so far are always a prefix of the applicable
\* checks; a check that refuses ends the request at once with a rejection naming
\* that check, so that no later limiter is consulted; a check that passes moves
\* on; and the request is admitted only after every applicable check was
\* consulted and none refused.
C14_ChecksInOrder ==
    /\ [](req.pc # "idle" /\ req.ip \notin WhitelistIps =>
            LET exp == ApplicableChecks(req.user, req.path)
                n == Len(req.consulted)
            IN /\ n <= Len(exp)
               /\ \A i \in 1..n : req.consulted[i] = exp[i]
               /\ req.pc \notin {"done"} => req.pc = exp[n + 1] /\ req.verdict = ""
               /\ (req.pc = "done" /\ req.verdict = "admitted") => req.consulted = exp
               /\ (req.pc = "done" /\ req.verdict # "admitted") =>
                     /\ n >= 1 /\ req.verdict = req.consulted[n]
                     /\ req.response.error = IF req.verdict = "throttle"
                                             THEN "request_throttled" ELSE "rate_limit_exceeded"
                     /\ req.verdict # "throttle" => req.response.message = MessageOf(req.verdict))
    /\ [][\A n \in WindowSet \cup {"throttle"} :
            (req.pc = n /\ req' # req) =>
                IF WouldRefuse(n)
                THEN req'.pc = "done" /\ req'.verdict = n
                ELSE req'.verdict # n /\ req'.consulted = Append(req.consulted, n)]_vars

\* a request with a user id on a research path was refused by the per-user
\* window after the global and per-IP windows passed; neither the research
\* window nor the token bucket was consulted
C14_Witness ==
    /\ req.pc = "done" /\ req.verdict = "user"
    /\ req.consulted = <<"global", "ip", "user">>
    /\ ResearchPath(req.path)

\* C15: a request from a whitelisted address is admitted by the step that
\* receives it, whatever the limiters hold, and that step leaves every sliding
\* window and every token bucket as it was; no limiter is consulted for it.
C15_WhitelistBypasses ==
    /\ [](req.ip \in WhitelistIps =>
            req.pc = "done" /\ req.verdict = "admitted" /\ req.consulted = <<>>)
    /\ [][(req.pc \in {"idle", "done"} /\ req' # req /\ req'.ip \in WhitelistIps) =>
            /\ req'.pc = "done" /\ req'.verdict = "admitted"
            /\ windows' = windows /\ throttle' = throttle]_vars

\* a whitelisted request was admitted while the global window was full, so
\* that any other request would have been refused
C15_Witness ==
    /\ req.pc = "done" /\ req.ip \in WhitelistIps /\ req.verdict = "admitted"
    /\ Len(EvictOld(windows["global"]["global"], now - WindowSeconds)) >= GlobalLimit

\* number of requests a deque holds inside the window that ends at t
CountIn(dq, t, window) == Cardinality({i \in DOMAIN dq : dq[i] >= t - window})

\* C16: a sliding-window check that finds c < L requests of its key inside the
\* window admits the request, records it and reports remaining = L - c - 1, so
\* that from an empty window the first L checks are admitted with remaining
\* L-1, ..., 0; a check that finds L requests inside the window rejects, and
\* the rejection response carries remaining = 0 and a retry-after above zero.
C16_CountdownThenReject ==
    [][\A n \in WindowSet :
          (req.pc = n /\ req' # req) =>
              LET key == KeyOf(n, req.ip, req.user)
                  c == CountIn(windows[n][key], now, WindowOf(n))
              IN IF c < LimitOf(n)
                 THEN /\ req'.verdict # n
                      /\ req'.remaining = LimitOf(n) - c - 1
                      /\ CountIn(windows'[n][key], now, WindowOf(n)) = c + 1
                 ELSE /\ c = LimitOf(n)
                      /\ req'.pc = "done" /\ req'.verdict = n
                      /\ req'.response.remaining = 0
                      /\ req'.response.retry_after > 0
                      /\ windows' = windows]_vars

\* the per-IP window holds IpLimit requests of one address inside the window and
\* the next request of that address was rejected with remaining 0
C16_Witness ==
    /\ req.pc = "done" /\ req.verdict = "ip"
    /\ CountIn(windows["ip"][req.ip], now, WindowSeconds) = IpLimit
    /\ req.response.remaining = 0 /\ req.response.retry_after > 0

\* process call o has completed its query on a cache miss, storing the result
CompletedOnMiss(o) ==
    /\ proc[o].kind = "process" /\ proc[o].pc = "returned"
    /\ ~proc[o].hit /\ proc[o].stored
    /\ status[proc[o].qid] = "completed"

\* C17: once a process call has completed a query q1 on a cache miss and stored
\* its result, the cache lookup of a process call on a later-submitted query q2
\* whose text normalizes like that of q1, made before the stored entry expires
\* and not ended by a persistence fault, is a hit: the call returns a result
\* marked cached, sets q2 Completed and starts no source adapter.
C17_RepeatServedFromCache ==
    [][\A p \in Procs :
          (/\ proc[p].pc = "lookup" /\ proc'[p].pc \notin {"lookup", "raised"}
           /\ \E o \in Procs \ {p} :
                 /\ CompletedOnMiss(o)
                 /\ proc[o].qid < proc[p].qid
                 /\ normalize_query(qtext[proc[o].qid]) = normalize_query(qtext[proc[p].qid])
                 /\ generate_cache_key(qtext[proc[o].qid]) \in DOMAIN written
                 /\ now < written[generate_cache_key(qtext[proc[o].qid])].expires)
          => /\ proc'[p].pc = "returned" /\ proc'[p].hit
             /\ proc'[p].ret.cached
             /\ ~proc'[p].searched
             /\ \A s \in Sources : proc'[p].adapter[s] = "idle"
             /\ status'[proc[p].qid] = "completed"]_vars

\* a query was completed on a miss and a later query with another raw text of
\* the same normalized form was then served from the cache
C17_Witness ==
    \E p, o \in Procs :
        /\ CompletedOnMiss(o)
        /\ proc[p].kind = "process" /\ proc[p].pc = "returned" /\ proc[p].hit
        /\ proc[p].ret.cached /\ ~proc[p].searched
        /\ proc[o].qid < proc[p].qid
        /\ qtext[proc[o].qid] # qtext[proc[p].qid]
        /\ normalize_query(qtext[proc[o].qid]) = normalize_query(qtext[proc[p].qid])

\* C18: a process call on an id that is not in the in-flight map (never
\* submitted, cancelled, or already processed to a terminal state) raises
\* NotFound at once and leaves the map, the state and text of every query and
\* the cache as they were.
C18_ProcessUnknownRaises ==
    [][\A p \in Procs :
          (/\ proc[p].pc = "idle" /\ proc'[p].pc # "idle"
           /\ proc'[p].kind = "process" /\ proc'[p].qid \notin active)
          => /\ proc'[p].pc = "raised" /\ proc'[p].err = "NotFound"
             /\ active' = active /\ status' = status /\ qtext' = qtext
             /\ resultsColl' = resultsColl /\ metaColl' = metaColl]_vars

\* a query was cancelled while Pending (no process call ever ran on it) and the
\* process call made on it afterwards raised NotFound
C18_Witness ==
    \E p \in Procs :
        /\ proc[p].kind = "process" /\ proc[p].pc = "raised" /\ proc[p].err = "NotFound"
        /\ status[proc[p].qid] = "failed"
        /\ \A o \in Procs \ {p} : proc[o].qid # proc[p].qid

\* C19: cancel(id) returns true exactly when id is in the in-flight map, that
\* is when the query is Pending or Processing; it then marks that query Failed,
\* removes it from the map and touches no other query. For any other id
\* (unknown or terminal) it returns false and changes nothing. An id that has
\* left the map never comes back, so a second cancel returns false.
C19_CancelContract ==
    /\ [](\A q \in QIds : q \in active <=> status[q] \in {"pending", "processing"})
    /\ [][(reply' # reply /\ reply'.op = "cancel") =>
            LET q == reply'.id
            IN /\ reply'.ret = (q \in active)
               /\ reply'.ret =>
                     /\ status'[q] = "failed" /\ active' = active \ {q}
                     /\ \A o \in QIds \ {q} : status'[o] = status[o]
               /\ ~reply'.ret => active' = active /\ status' = status]_vars
    /\ [][\A q \in QIds : (q \notin active /\ status[q] # "none") => q \notin active']_vars

\* the second cancel of a query returned false: the query had been cancelled
\* while Pending, and it is still Failed and out of the map
C19_Witness ==
    /\ reply.op = "cancel" /\ ~reply.ret
    /\ status[reply.id] = "failed" /\ reply.id \notin active
    /\ \A p \in Procs : proc[p].qid # reply.id

\* C20: submit raises InvalidInput and registers nothing when its text is empty
\* or blank; otherwise it registers exactly one new entry, Pending, with the
\* trimmed text, under an id no query had before, and leaves every existing
\* entry as it was.
C20_SubmitContract ==
    [][(reply' # reply /\ reply'.op = "submit") =>
          IF \A i \in DOMAIN reply'.text : reply'.text[i] = 0
          THEN /\ reply'.err = "InvalidInput"
               /\ active' = active /\ status' = status /\ qtext' = qtext
          ELSE LET id == reply'.id
               IN /\ reply'.err = ""
                  /\ status[id] = "none" /\ id \notin active
                  /\ active' = active \cup {id}
                  /\ status'[id] = "pending"
                  /\ qtext'[id] # <<>> /\ Head(qtext'[id]) # 0
                  /\ \A o \in QIds \ {id} : status'[o] = status[o] /\ qtext'[o] = qtext[o]]_vars

\* a blank text was refused while one query was registered, and nothing was added
C20_Witness ==
    /\ reply.op = "submit" /\ reply.err = "InvalidInput" /\ reply.text = <<0>>
    /\ active = {1} /\ status[1] = "pending"

\* C21: a process call that missed the cache and whose fan-out ended, without
\* timing out, in an empty merged result set (every adapter raised, so that
\* synthesis was skipped) never returns a result: every result returned after
\* a completed fan-out holds at least one item.
C21_AllAdaptersFailRaises ==
    \A p \in Procs :
        (/\ proc[p].kind = "process" /\ proc[p].pc = "returned"
         /\ proc[p].searched /\ ~proc[p].timedOut)
        => TotalResults(proc[p].ret.results) > 0

\* C22: in a process call synthesis is invoked exactly when the merged result
\* set is non-empty; without synthesis the summary and the confidence are both
\* absent; a synthesis call that raises yields the fallback summary with
\* confidence 0.6 and the call goes on to store its result: no process call
\* ever fails at the synthesis step.
C22_SynthesisContract ==
    /\ [](\A p \in Procs :
            proc[p].kind = "process" =>
                /\ proc[p].pc \in {"ai", "store"} =>
                      (proc[p].synthesized <=> TotalResults(proc[p].results) > 0)
                /\ (proc[p].pc = "returned" /\ ~proc[p].hit) =>
                      (proc[p].synthesized <=> TotalResults(proc[p].ret.results) > 0)
                /\ (proc[p].pc \in {"store", "returned"} /\ ~proc[p].hit) =>
                      LET r == IF proc[p].pc = "store" THEN proc[p] ELSE proc[p].ret
                      IN IF proc[p].synthesized
                         THEN <<r.ai_summary, r.confidence_score>> \in
                                  {<<"synthesis", "synthesis">>, <<"fallback", "0.6">>}
                         ELSE r.ai_summary = "none" /\ r.confidence_score = "none"
                /\ proc[p].pc = "raised" => proc[p].failedAt \in {"call", "lookup", "store"})
    /\ [][\A p \in Procs :
            (proc[p].pc = "ai" /\ proc'[p].pc # "ai") => proc'[p].pc = "store"]_vars

\* a process call whose synthesis raised has returned its result with the
\* fallback summary and confidence 0.6, and its query is Completed
C22_Witness ==
    \E p \in Procs :
        /\ proc[p].kind = "process" /\ proc[p].pc = "returned" /\ proc[p].synthesized
        /\ proc[p].ret.ai_summary = "fallback" /\ proc[p].ret.confidence_score = "0.6"
        /\ proc[p].set = "completed"

\* the entries of the result collection that are not expired at time t
ActiveKeys(coll, t) == {k \in DOMAIN coll : coll[k].expires_at[1] > t}

SweepPcs == {"sweep_find", "sweep_results", "sweep_meta"}

\* C23: every step of a sweep removes only expired entries and only hit-count
\* records of keys without an active entry, also while stores and lookups of
\* other callers run in between; a sweep that finds nothing expired changes
\* nothing and returns 0; a sweep that meets no fault returns the number of
\* entries it removed.
C23_SweepRemovesOnlyExpired ==
    [][\A c \in Callers :
          (ccall[c].pc \in SweepPcs /\ ccall'[c] # ccall[c]) =>
              /\ \A k \in DOMAIN resultsColl \ DOMAIN resultsColl' :
                    resultsColl[k].expires_at[1] <= now
              /\ \A k \in DOMAIN metaColl \ DOMAIN metaColl' :
                    k \notin ActiveKeys(resultsColl, now)
              /\ \A k \in DOMAIN resultsColl' : resultsColl'[k] = resultsColl[k]
              /\ (ccall[c].pc = "sweep_find" /\ ExpiredKeys(resultsColl, now) = {}
                    /\ ccall'[c].fault = "") =>
                    /\ ccall'[c].pc = "done" /\ ccall'[c].ret.n = 0
                    /\ resultsColl' = resultsColl /\ metaColl' = metaColl
              /\ (ccall[c].pc = "sweep_results" /\ ccall'[c].fault = "") =>
                    ccall'[c].n = Cardinality(DOMAIN resultsColl \ DOMAIN resultsColl')
              /\ (ccall'[c].pc = "done" /\ ccall'[c].fault = "" /\ ccall[c].pc = "sweep_meta") =>
                    ccall'[c].ret.n = ccall[c].n]_vars

\* what one step of an invalidate call of caller c on its key does: the result
\* delete leaves no entry under the key (a lookup is then absent), the metadata
\* delete leaves no hit-count record under it, and neither touches another key
InvalidateEffect(c) ==
    LET key == generate_cache_key(ccall[c].query)
    IN /\ (ccall[c].pc = "inv_result" /\ ccall'[c].pc = "inv_meta") =>
             /\ key \notin DOMAIN resultsColl'
             /\ FindValid(resultsColl', key, now) = NoDoc
             /\ ccall'[c].n = IF key \in DOMAIN resultsColl THEN 1 ELSE 0
             /\ metaColl' = metaColl
       /\ (ccall[c].pc = "inv_result" /\ ccall'[c].pc = "done") =>
             /\ ccall'[c].ret.kind = "false"
             /\ resultsColl' = resultsColl /\ metaColl' = metaColl
       /\ (ccall[c].pc = "inv_meta" /\ ccall'[c].pc = "done" /\ ccall'[c].fault = "") =>
             /\ key \notin DOMAIN metaColl'
             /\ resultsColl' = resultsColl
       /\ \A k \in (DOMAIN resultsColl \cup DOMAIN resultsColl') \ {key} :
             k \in DOMAIN resultsColl /\ k \in DOMAIN resultsColl' /\ resultsColl'[k] = resultsColl[k]
       /\ \A k \in (DOMAIN metaColl \cup DOMAIN metaColl') \ {key} :
             k \in DOMAIN metaColl /\ k \in DOMAIN metaColl' /\ metaColl'[k] = metaColl[k]

\* C24 (as claimed): every invalidate call returns true exactly when it found
\* and removed a result entry under the key, and leaves neither an entry nor a
\* hit-count record under the key and every other key unchanged.
C24_InvalidateIffRemoved ==
    [][\A c \in Callers :
          (ccall[c].pc \in {"inv_result", "inv_meta"} /\ ccall'[c] # ccall[c]) =>
              /\ InvalidateEffect(c)
              /\ (ccall[c].pc = "inv_meta" /\ ccall'[c].pc = "done") =>
                    (ccall'[c].ret.kind = "true" <=> ccall[c].n > 0)]_vars

\* C24 (amended): an invalidate call that meets no persistence fault returns
\* true exactly when it found and removed a result entry under the key; a call
\* whose deletes meet a fault returns false, also when its result delete had
\* already removed the entry. The effects on the collections are as claimed.
C24_InvalidateIffRemovedUnlessFault ==
    [][\A c \in Callers :
          (ccall[c].pc \in {"inv_result", "inv_meta"} /\ ccall'[c] # ccall[c]) =>
              /\ InvalidateEffect(c)
              /\ (ccall[c].pc = "inv_meta" /\ ccall'[c].pc = "done") =>
                    IF ccall'[c].fault = ""
                    THEN ccall'[c].ret.kind = "true" <=> ccall[c].n > 0
                    ELSE ccall'[c].ret.kind = "false"]_vars

\* an invalidate call has returned true and left nothing under its key
C24_Witness ==
    \E c \in Callers :
        /\ ccall[c].pc = "done" /\ ccall[c].op = "inv_result" /\ ccall[c].ret.kind = "true"
        /\ resultsColl = <<>> /\ metaColl = <<>>

(* --------------------------------- C25 --------------------------------- *)
\* C25: every replace step of a store writes, under the key of its query, the
\* payload of the call with expires_at = now + ttl for the ttl the caller
\* supplied, the default being used only when none was supplied; the key has
\* this one entry afterwards and the entries of the other keys are untouched.
C25_StoreWritesRequestedExpiry ==
    [][\A c \in Callers :
          (ccall[c].pc = "store_replace" /\ ccall'[c].pc = "store_update")
          => LET key == generate_cache_key(ccall[c].query)
             IN /\ DOMAIN resultsColl' = DOMAIN resultsColl \cup {key}
                /\ resultsColl'[key] =
                       ResultDoc(ccall[c].arg,
                                 now + (IF ccall[c].ttl = <<>> THEN DefaultTtl
                                                               ELSE ccall[c].ttl[1]))
                /\ \A k \in DOMAIN resultsColl \ {key} : resultsColl'[k] = resultsColl[k]
     ]_vars

(* --------------------------------- C26 --------------------------------- *)
\* C26: normalizing a normalized text changes nothing; a text and the same
\* text with two tokens exchanged, a letter in the other case, a punctuation
\* mark added, extra whitespace or a stop word added normalize to the same
\* string; texts with equal normalizations have equal cache keys; and every
\* cache key is a string of 32 lower-case hexadecimal digits.
C26_NormalizeCanonical ==
    fn.pc = "done" =>
        /\ NormalizeText(fn.norm) = fn.norm
        /\ NormalizeText(fn.normVariant) = fn.normVariant
        /\ fn.normVariant = fn.norm
        /\ (fn.normVariant = fn.norm => fn.keyVariant = fn.key)
        /\ \A k \in {fn.key, fn.keyVariant} :
              /\ Len(k) = 32
              /\ \A i \in 1..Len(k) :
                    k[i] \in {"0", "1", "2", "3", "4", "5", "6", "7", "8", "9",
                              "a", "b", "c", "d", "e", "f"}

\* a text of a stop word, a capital and a word out of order, and the same text
\* with its tokens exchanged, are given the same key
C26_Witness ==
    /\ fn.pc = "done"
    /\ fn.text = <<"b", " ", "A", "-">>
    /\ fn.edit = "permuted"
    /\ fn.variant = <<"A", "-", " ", "b">>
    /\ fn.norm = <<"a", "-", " ", "b">>
    /\ fn.key = fn.keyVariant

(* --------------------------------- C27 --------------------------------- *)
\* C27: a returned health report has an entry for the orchestrator, for each
\* of the three adapters and for the cache; the entry of a component whose
\* probe raised is the error entry with the text of its exception, the entry of
\* every other component is what its probe returned; and no health call raises.
C27_HealthIsolatesProbeErrors ==
    /\ health.err = ""
    /\ health.pc = "returned" =>
          /\ DOMAIN health.report = {"orchestrator"} \cup Components
          /\ health.report["orchestrator"].status = "healthy"
          /\ \A c \in Components :
                LET out == health.probes[c]
                IN /\ out.kind = "raise" =>
                          health.report[c] = [status |-> "error", error |-> out.text]
                   /\ out.kind = "return" => health.report[c] = out.value

\* a report with one failed adapter between two healthy ones and a failed cache
C27_Witness ==
    /\ health.pc = "returned"
    /\ health.probes["google_books"].kind = "raise"
    /\ health.report["google_books"] = [status |-> "error", error |-> "unreachable"]
    /\ health.report["google_scholar"].status = "active"
    /\ health.report["sciencedirect"].status = "active"
    /\ health.report["cache"] = [status |-> "error", error |-> "bad credentials"]
    /\ health.report["orchestrator"].active_queries = 1

(* --------------------------------- C28 --------------------------------- *)
\* the in-flight entry or the state of query id q differs after the step
Changed(q) ==
    \/ (q \in active) # (q \in active')
    \/ status'[q] # status[q]
    \/ qtext'[q] # qtext[q]

\* every step of a submit, process or cancel call changes the entry and state
\* of at most one id, the id the call is about
OwnIdOnly ==
    /\ Cardinality({q \in QIds : Changed(q)}) <= 1
    /\ \A p \in Procs : proc'[p] # proc[p] => \A q \in QIds : Changed(q) => q = proc'[p].qid
    /\ nextId' # nextId => \A q \in QIds : Changed(q) => q = nextId

C29_StatsConsistent ==
    \A c \in Callers :
        (ccall[c].pc = "done" /\ ccall[c].op = "stats_total")
        => /\ ccall[c].ret.kind = "stats"
           /\ LET s == ccall[c].ret.stats
              IN /\ s.total_entries = s.active_entries + s.expired_entries
                 /\ s.total_entries >= 0 /\ s.active_entries >= 0 /\ s.expired_entries >= 0
                 /\ s.total_hits + s.active_entries = 0 => s.cache_hit_rate_percent = 0
                 /\ s.total_hits + s.active_entries > 0 =>
                       LET d == s.total_hits + s.active_entries
                           twice == 2 * (s.cache_hit_rate_percent * d - 10000 * s.total_hits)
                       IN -d <= twice /\ twice <= d
                 /\ ccall[c].fault # "" =>
                       s = [total_entries |-> 0, active_entries |-> 0, expired_entries |-> 0,
                            total_hits |-> 0, cache_hit_rate_percent |-> 0]

(* --------------------------------- C30 --------------------------------- *)
\* C30: every token-bucket check refills the bucket to
\* min(capacity, tokens + elapsed * refill_rate), admits exactly when the
\* refilled tokens cover the cost, and leaves refilled - cost tokens when it
\* admits and the refilled tokens when it rejects; a cost above the capacity
\* is never admitted.
C30_RefillThenAdmit ==
    [][\A c \in Callers :
          (tbpc[c] = "bucket" /\ tbpc'[c] = "done")
          => LET k == tbkey[c]
                 cost == tbcost[c]
                 b == IF k \in DOMAIN buckets THEN buckets[k]
                      ELSE [tokens |-> Capacity, last_refill |-> now]
                 refilled == Min(Capacity, b.tokens + (tbnow[c] - b.last_refill) * RefillRate)
             IN /\ tballowed'[c] <=> refilled >= cost
                /\ tballowed'[c] => buckets'[k].tokens = refilled - cost
                /\ ~tballowed'[c] => buckets'[k].tokens = refilled
                /\ tbinfo'[c].tokens = buckets'[k].tokens
                /\ cost > Capacity => ~tballowed'[c]
                /\ \A j \in DOMAIN buckets \ {k} : buckets'[j] = buckets[j]
     ]_vars

\* a check asking for more than the capacity was rejected and took nothing
\* from a bucket that an earlier check had been admitted from
C30_Witness ==
    \E c \in Callers :
        /\ tbpc[c] = "done"
        /\ tbcost[c] > Capacity
        /\ ~tballowed[c]
        /\ tbkey[c] \in DOMAIN buckets
        /\ buckets[tbkey[c]].tokens = tbinfo[c].tokens
        /\ tbinfo[c].tokens \in 1..(Capacity - 1)

(* --------------------------------- C31 --------------------------------- *)
\* the events of dq that are not older than windowStart
InWindow(dq, windowStart) ==
    LET Recent(t) == t >= windowStart IN SelectSeq(dq, Recent)

TimeOrdered(dq) == \A i, j \in DOMAIN dq : i < j => dq[i] <= dq[j]

\* C31: every key's event list is time-ordered and never longer than the
\* limit; a check leaves of the key's events exactly those not older than
\* now - window_seconds, is admitted exactly when fewer than the limit remain,
\* and appends its timestamp when admitted and nothing when rejected.
C31_WindowListInvariant ==
    /\ [](\A k \in RKeys : TimeOrdered(requests[k]) /\ Len(requests[k]) <= MaxRequests)
    /\ [][\A c \in Callers :
            /\ (swpc[c] = "check" /\ swpc'[c] = "record")
               => LET k == swkey[c]
                  IN /\ requests'[k] = InWindow(requests[k], now - WindowSeconds)
                     /\ swallowed'[c] <=> Len(requests'[k]) < MaxRequests
            /\ (swpc[c] = "record" /\ swpc'[c] = "done")
               => LET k == swkey[c]
                  IN /\ swallowed[c] => requests'[k] = Append(requests[k], swnow[c])
                     /\ ~swallowed[c] => requests'[k] = requests[k]
                     /\ \A i \in DOMAIN requests'[k] :
                           requests'[k][i] >= swnow[c] - WindowSeconds
                     /\ \A j \in RKeys \ {k} : requests'[j] = requests[j]
       ]_vars

\* a check was rejected on a full window after older events had been evicted
C31_Witness ==
    \E c \in Callers :
        /\ swpc[c] = "done"
        /\ ~swallowed[c]
        /\ Len(requests[swkey[c]]) = MaxRequests
        /\ Len(admitted[swkey[c]]) > MaxRequests
        /\ requests[swkey[c]][1] >= swnow[c] - WindowSeconds

(* --------------------------------- C32 --------------------------------- *)
\* C32: the research window changes only while a request to the submission
\* path is checked, and only such a request is rejected by it; a request to
\* any other path is neither counted in it nor rejected by it.
C32_ResearchWindowOnlyForSubmission ==
    /\ [][windows'["research"] # windows["research"] => SubmissionPath(req.path)]_vars
    /\ [](req.verdict = "research" => SubmissionPath(req.path))

(* --------------------------------- C33 --------------------------------- *)
\* C33: a search makes at most max_retries attempts, makes no attempt after a
\* successful one or after an authentication error (401, 403), and ends by
\* returning: the empty list when every attempt failed.
C33_BoundedRetries ==
    /\ Len(search.tried) <= MaxRetries
    /\ \A i \in 1..(Len(search.tried) - 1) :
          search.tried[i].kind \notin {"data", "401", "403"}
    /\ search.pc = "returned" =>
          IF \A i \in DOMAIN search.tried : search.tried[i].kind # "data"
          THEN search.ret = <<>>
          ELSE search.ret = search.tried[Len(search.tried)].entries

\* a search that was rate limited on every attempt gave up with the empty list
C33_Witness ==
    /\ search.pc = "returned"
    /\ Len(search.tried) = MaxRetries
    /\ \A i \in DOMAIN search.tried : search.tried[i].kind = "429"
    /\ search.ret = <<>>

(* --------------------------------- C34 --------------------------------- *)
\* C34: the result a process call returns carries the id the call was made
\* for, on a cache miss and on a cache hit alike.
C34_ResultCarriesOwnId ==
    \A p \in Procs :
        (proc[p].kind = "process" /\ proc[p].pc = "returned")
        => proc[p].ret.query_id = proc[p].qid

(* --------------------------------- C35 --------------------------------- *)
\* C35: for one query id at most one process call gets past the check of the
\* in-flight map, so the adapters are searched at most once for that id.
C35_OneProcessPerId ==
    \A p1, p2 \in Procs :
        (/\ p1 # p2
         /\ proc[p1].kind = "process" /\ proc[p2].kind = "process"
         /\ proc[p1].qid = proc[p2].qid)
        => \/ proc[p1].err = "NotFound" /\ proc[p1].failedAt = "call"
           \/ proc[p2].err = "NotFound" /\ proc[p2].failedAt = "call"

(* --------------------------------- C36 --------------------------------- *)
\* a process call leaves through its return or its exception at this step
ProcessExits(p) ==
    /\ proc[p].pc \notin {"returned", "raised"}
    /\ proc'[p].pc \in {"returned", "raised"}
    /\ proc'[p].kind = "process"

\* C36: when every awaited call comes back, each query that is PROCESSING is
\* eventually COMPLETED or FAILED and out of the in-flight map; and whichever
\* way a process call ends, its id is not in the in-flight map afterwards.
C36_ProcessingEnds ==
    /\ \A q \in QIds :
          (status[q] = "processing")
              ~> (status[q] \in {"completed", "failed"} /\ ~InFlight(q))
    /\ [][\A p \in Procs : ProcessExits(p) => proc'[p].qid \notin active']_vars

\* a query that went through the fan-out and the store has ended COMPLETED
\* and left the in-flight map
C36_Witness ==
    \E p \in Procs :
        /\ proc[p].kind = "process" /\ proc[p].pc = "returned" /\ proc[p].stored
        /\ status[proc[p].qid] = "completed"
        /\ ~InFlight(proc[p].qid)

(* --------------------------------- C37 --------------------------------- *)
\* C37: whenever no cache operation is in progress, the keys that have a
\* hit-count (metadata) record are exactly the keys that have a result entry.
C37_MetadataIffResult ==
    Quiescent => DOMAIN metaColl = DOMAIN resultsColl

(* --------------------------------- C38 --------------------------------- *)
\* the deque of limiter m under the key of the request in flight
OwnDeque(w, m) == w[m][KeyOf(m, req.ip, req.user)]

\* C38: a check that passes records the request in its own window and a step
\* of a request touches no limiter but the one it checks; so on the step that
\* rejects a request every window checked before holds the request's event,
\* and every limiter after the failing check is as it was when the request
\* came in. A request rejected after the global check is counted by the
\* global window.
C38_RejectionKeepsEarlierCharges ==
    [][\A n \in WindowSet \cup {"throttle"} :
          (req.pc = n /\ req' # req) =>
              /\ \A m \in WindowSet \ {n} : windows'[m] = windows[m]
              /\ n # "throttle" => throttle' = throttle
              /\ (n # "throttle" /\ req'.verdict # n) =>
                    OwnDeque(windows', n) = Append(EvictOld(OwnDeque(windows, n), now - WindowOf(n)), now)
              /\ (req'.pc = "done" /\ req'.verdict = n) =>
                    /\ \A i \in 1..Len(req.consulted) :
                          LET dq == OwnDeque(windows', req.consulted[i])
                          IN dq # <<>> /\ dq[Len(dq)] = now
                    /\ n # "global" =>
                          CountIn(windows'["global"]["global"], now, WindowSeconds) >= 1
    ]_vars

\* a request was rejected by the token bucket after the global and the per-IP
\* window had recorded it
C38_Witness ==
    /\ req.pc = "done" /\ req.verdict = "throttle"
    /\ req.consulted = <<"global", "ip", "throttle">>
    /\ windows["global"]["global"] # <<>>
    /\ windows["global"]["global"][Len(windows["global"]["global"])] = now
    /\ windows["ip"][req.ip][Len(windows["ip"][req.ip])] = now

(* --------------------------------- C39 --------------------------------- *)
\* C39: a get_rate_limit_status call leaves every sliding window and every
\* token bucket as it was.
C39_StatusReadOnly ==
    [][status_info' # status_info => (windows' = windows /\ throttle' = throttle)]_vars

====
